---- MODULE Spec2Model ----
(***************************************************************************)
(* A model of the ZenB session kernel (services/ZenBKernel.ts), its        *)
(* pattern catalog (types.ts) and the phase machine it imports.            *)
(*                                                                         *)
(* Numbers.  The kernel computes on JavaScript numbers.  The model uses    *)
(* exact rationals <<n, d>> (d > 0, lowest terms), so every sum, product   *)
(* and comparison of the code is computed exactly; floating-point rounding *)
(* is not modelled.  Times (dt, phase durations) are rationals in seconds. *)
(*                                                                         *)
(* Events.  The timestamp field (Date.now()) of every event is left out:   *)
(* no transition reads it.                                                 *)
(***************************************************************************)
EXTENDS Integers, Sequences, FiniteSets, TLC

(***************************************************************************)
(* Exact rational arithmetic                                               *)
(***************************************************************************)
RECURSIVE GCD(_, _)
GCD(a, b) == IF b = 0 THEN a ELSE GCD(b, a % b)

Abs(n) == IF n < 0 THEN -n ELSE n

\* the rational n/d in lowest terms (d > 0)
R(n, d) ==
    LET g == GCD(Abs(n), d)
    IN  IF n = 0 THEN <<0, 1>> ELSE <<n \div g, d \div g>>

Zero == R(0, 1)
One == R(1, 1)

RAdd(x, y) == R(x[1] * y[2] + y[1] * x[2], x[2] * y[2])
RSub(x, y) == R(x[1] * y[2] - y[1] * x[2], x[2] * y[2])
RMul(x, y) == R(x[1] * y[1], x[2] * y[2])
RLt(x, y) == x[1] * y[2] < y[1] * x[2]
RLe(x, y) == x[1] * y[2] <= y[1] * x[2]
RMin(x, y) == IF RLt(y, x) THEN y ELSE x
RMax(x, y) == IF RLt(x, y) THEN y ELSE x

(***************************************************************************)
(* types.ts: phases and the pattern catalog                                *)
(***************************************************************************)
BreathPhase == {"inhale", "holdIn", "exhale", "holdOut"}

Timings(i, hi, e, ho) ==
    [inhale |-> i, holdIn |-> hi, exhale |-> e, holdOut |-> ho]

BREATHING_PATTERNS ==
    [ p478      |-> [id |-> "p478",      timings |-> Timings(R(4,1), R(7,1), R(8,1), Zero),     tier |-> 1],
      box       |-> [id |-> "box",       timings |-> Timings(R(4,1), R(4,1), R(4,1), R(4,1)),   tier |-> 1],
      calm      |-> [id |-> "calm",      timings |-> Timings(R(4,1), Zero,   R(6,1), Zero),     tier |-> 1],
      coherence |-> [id |-> "coherence", timings |-> Timings(R(6,1), Zero,   R(6,1), Zero),     tier |-> 2],
      deepRelax |-> [id |-> "deepRelax", timings |-> Timings(R(4,1), Zero,   R(8,1), Zero),     tier |-> 1],
      p711      |-> [id |-> "p711",      timings |-> Timings(R(7,1), Zero,   R(11,1), Zero),    tier |-> 2],
      awake     |-> [id |-> "awake",     timings |-> Timings(R(4,1), Zero,   R(2,1), Zero),     tier |-> 2],
      triangle  |-> [id |-> "triangle",  timings |-> Timings(R(4,1), R(4,1), R(4,1), Zero),     tier |-> 1],
      tactical  |-> [id |-> "tactical",  timings |-> Timings(R(5,1), R(5,1), R(5,1), R(5,1)),   tier |-> 2],
      buteyko   |-> [id |-> "buteyko",   timings |-> Timings(R(3,1), Zero,   R(3,1), R(4,1)),   tier |-> 3],
      wimHof    |-> [id |-> "wimHof",    timings |-> Timings(R(5,2), Zero,   R(3,2), Zero),     tier |-> 3] ]

\* the ids of the catalog ('4-7-8' is p478, '7-11' is p711, 'deep-relax' is
\* deepRelax, 'wim-hof' is wimHof: record field names cannot hold a dash)
CatalogIds == DOMAIN BREATHING_PATTERNS

\* this.state.pattern is a catalog entry or null; the model holds its id
NoPattern == "null"

(***************************************************************************)
(* phaseMachine.ts (imported by the kernel; the file is not part of the    *)
(* sources at hand, so both functions follow the specification, 4.1)       *)
(***************************************************************************)
\* the fixed cyclic order inhale -> holdIn -> exhale -> holdOut -> inhale
Successor(ph) ==
    CASE ph = "inhale"  -> "holdIn"
      [] ph = "holdIn"  -> "exhale"
      [] ph = "exhale"  -> "holdOut"
      [] ph = "holdOut" -> "inhale"

\* the phase after `ph`, skipping at most `left` zero-duration phases
RECURSIVE SkipZero(_, _, _)
SkipZero(ph, pattern, left) ==
    IF left = 0 \/ pattern.timings[ph] # Zero
    THEN ph
    ELSE SkipZero(Successor(ph), pattern, left - 1)

\* at most 3 phases are skipped: after a full wrap the answer is the
\* successor reached, whatever its duration
nextPhaseSkipZero(current, pattern) ==
    SkipZero(Successor(current), pattern, 3)

isCycleBoundary(ph) == ph = "inhale"

(***************************************************************************)
(* ZenBKernel.ts: the Active Inference Model                               *)
(***************************************************************************)
Belief(a, t, r) == [arousal |-> a, attention |-> t, rhythm_alignment |-> r]

\* mutant: the interrupted branch does not clamp arousal at 1
updateUnclamped(currentBelief, observation, isRunning) ==
    LET dt == observation.delta_time
        arousal == currentBelief.arousal
        attention == currentBelief.attention
        rhythm_alignment == currentBelief.rhythm_alignment
        isInterrupted == \/ observation.visibilty_state = "hidden"
                         \/ observation.user_interaction = "pause"
    IN  IF ~isRunning
        THEN Belief(RMax(Zero, RSub(arousal, RMul(R(1, 10), dt))),
                    RMax(Zero, RSub(attention, RMul(R(2, 10), dt))),
                    RMax(Zero, RSub(rhythm_alignment, RMul(R(1, 10), dt))))
        ELSE IF isInterrupted
        THEN Belief(RAdd(arousal, RMul(R(3, 10), dt)),
                    RMax(Zero, RSub(attention, RMul(R(5, 10), dt))),
                    RMax(Zero, RSub(rhythm_alignment, RMul(R(4, 10), dt))))
        ELSE Belief(RMax(Zero, RSub(arousal, RMul(R(5, 100), dt))),
                    RMin(One, RAdd(attention, RMul(R(1, 10), dt))),
                    RMin(One, RAdd(rhythm_alignment, RMul(R(2, 10), dt))))

\* mutant: while not running, attention decays at 0.10 per second
updateSlowAttention(currentBelief, observation, isRunning) ==
    LET dt == observation.delta_time
        arousal == currentBelief.arousal
        attention == currentBelief.attention
        rhythm_alignment == currentBelief.rhythm_alignment
        isInterrupted == \/ observation.visibilty_state = "hidden"
                         \/ observation.user_interaction = "pause"
    IN  IF ~isRunning
        THEN Belief(RMax(Zero, RSub(arousal, RMul(R(1, 10), dt))),
                    RMax(Zero, RSub(attention, RMul(R(1, 10), dt))),
                    RMax(Zero, RSub(rhythm_alignment, RMul(R(1, 10), dt))))
        ELSE IF isInterrupted
        THEN Belief(RMin(One, RAdd(arousal, RMul(R(3, 10), dt))),
                    RMax(Zero, RSub(attention, RMul(R(5, 10), dt))),
                    RMax(Zero, RSub(rhythm_alignment, RMul(R(4, 10), dt))))
        ELSE Belief(RMax(Zero, RSub(arousal, RMul(R(5, 100), dt))),
                    RMin(One, RAdd(attention, RMul(R(1, 10), dt))),
                    RMin(One, RAdd(rhythm_alignment, RMul(R(2, 10), dt))))

\* mutant: the pause tag of the observation agitates a session that is not running
updatePauseAgitates(currentBelief, observation, isRunning) ==
    LET dt == observation.delta_time
        arousal == currentBelief.arousal
        attention == currentBelief.attention
        rhythm_alignment == currentBelief.rhythm_alignment
        isInterrupted == \/ observation.visibilty_state = "hidden"
                         \/ observation.user_interaction = "pause"
    IN  IF ~isRunning /\ observation.user_interaction # "pause"
        THEN Belief(RMax(Zero, RSub(arousal, RMul(R(1, 10), dt))),
                    RMax(Zero, RSub(attention, RMul(R(2, 10), dt))),
                    RMax(Zero, RSub(rhythm_alignment, RMul(R(1, 10), dt))))
        ELSE IF isInterrupted
        THEN Belief(RMin(One, RAdd(arousal, RMul(R(3, 10), dt))),
                    RMax(Zero, RSub(attention, RMul(R(5, 10), dt))),
                    RMax(Zero, RSub(rhythm_alignment, RMul(R(4, 10), dt))))
        ELSE Belief(RMax(Zero, RSub(arousal, RMul(R(5, 100), dt))),
                    RMin(One, RAdd(attention, RMul(R(1, 10), dt))),
                    RMin(One, RAdd(rhythm_alignment, RMul(R(2, 10), dt))))

\* ActiveInferenceModel.update
update(currentBelief, observation, isRunning) ==
    LET dt == observation.delta_time
        arousal == currentBelief.arousal
        attention == currentBelief.attention
        rhythm_alignment == currentBelief.rhythm_alignment
        isInterrupted == \/ observation.visibilty_state = "hidden"
                         \/ observation.user_interaction = "pause"
    IN  IF ~isRunning
        THEN Belief(RMax(Zero, RSub(arousal, RMul(R(1, 10), dt))),
                    RMax(Zero, RSub(attention, RMul(R(2, 10), dt))),
                    RMax(Zero, RSub(rhythm_alignment, RMul(R(1, 10), dt))))
        ELSE IF isInterrupted
        THEN Belief(RMin(One, RAdd(arousal, RMul(R(3, 10), dt))),
                    RMax(Zero, RSub(attention, RMul(R(5, 10), dt))),
                    RMax(Zero, RSub(rhythm_alignment, RMul(R(4, 10), dt))))
        ELSE Belief(RMax(Zero, RSub(arousal, RMul(R(5, 100), dt))),
                    RMin(One, RAdd(attention, RMul(R(1, 10), dt))),
                    RMin(One, RAdd(rhythm_alignment, RMul(R(2, 10), dt))))

\* mutant: full alignment suppresses all of arousal, H = arousal * (1 - alignment)
calculateEntropyOfComment(belief) ==
    RMin(One, RMax(Zero,
        RMul(belief.arousal, RSub(One, belief.rhythm_alignment))))

\* ActiveInferenceModel.calculateEntropy
calculateEntropy(belief) ==
    RMin(One, RMax(Zero,
        RMul(belief.arousal, RSub(One, RMul(belief.rhythm_alignment, R(8, 10))))))

(***************************************************************************)
(* ZenBKernel.ts: the Safety Guard                                         *)
(***************************************************************************)
Null == [type |-> "null"]

Intervention(risk, act) ==
    [type |-> "SAFETY_INTERVENTION", riskLevel |-> risk, action |-> act]

\* mutant: a resonance_score of exactly 0.3 also counts as low
GuardAInclusive(st, registry) ==
    /\ st.pattern \in DOMAIN registry
    /\ RLe(registry[st.pattern].resonance_score, R(3, 10))
    /\ RLt(R(8, 10), st.entropy)

\* Guard 1 of HippocraticGuard.check: the pattern has a record whose
\* resonance_score is below 0.3, and state.entropy is above 0.8
GuardA(st, registry) ==
    /\ st.pattern \in DOMAIN registry
    /\ RLt(registry[st.pattern].resonance_score, R(3, 10))
    /\ RLt(R(8, 10), st.entropy)

\* mutant: the watchdog already fires at 30 completed cycles
GuardBFromThirty(st) ==
    /\ BREATHING_PATTERNS[st.pattern].tier = 2
    /\ st.cycleCount >= 30
    /\ RLt(R(9, 10), st.belief.arousal)

\* Guard 2 of HippocraticGuard.check
GuardB(st) ==
    /\ BREATHING_PATTERNS[st.pattern].tier = 2
    /\ st.cycleCount > 30
    /\ RLt(R(9, 10), st.belief.arousal)

\* mutant: the watchdog is tested before the trauma check
checkWatchdogFirst(st, registry) ==
    IF st.pattern = NoPattern THEN Null
    ELSE IF GuardB(st) THEN Intervention(R(8, 10), "COOLDOWN_FORCED")
    ELSE IF GuardA(st, registry) THEN Intervention(R(9, 10), "HALT_PREVENTATIVE")
    ELSE Null

\* HippocraticGuard.check
check(st, registry) ==
    IF st.pattern = NoPattern THEN Null
    ELSE IF GuardA(st, registry) THEN Intervention(R(9, 10), "HALT_PREVENTATIVE")
    ELSE IF GuardB(st) THEN Intervention(R(8, 10), "COOLDOWN_FORCED")
    ELSE Null

(***************************************************************************)
(* ZenBKernel.ts: the kernel.  A kernel value k holds the fields of the    *)
(* ZenBKernel object: state, eventLog, safetyRegistry and subscribers, and  *)
(* observations of its calls: delivered, the copy of the state every       *)
(* notify() makes; dispatchCalls, the number of dispatch() calls made;     *)
(* held, the objects that were handed to callbacks, as they are seen       *)
(* through the reference the callback got; thrown, whether an exception    *)
(* is propagating out of the call.                                         *)
(***************************************************************************)
\* ZenBKernel.getInitialState
getInitialState ==
    [ status          |-> "IDLE",
      pattern         |-> NoPattern,
      phase           |-> "inhale",
      phaseElapsed    |-> Zero,
      phaseDuration   |-> Zero,
      cycleCount      |-> 0,
      sessionDuration |-> Zero,
      belief          |-> Belief(R(2, 10), R(5, 10), Zero),
      entropy         |-> R(2, 10) ]

RECURSIVE dispatch(_, _, _)

\* no event: a callback is called outside a dispatch
NoEvent == [type |-> "none"]

\* the callbacks a host registers.  observer and second only read the state;
\* halter dispatches HALT when it is told of a PHASE_TRANSITION; pauser
\* dispatches USER_INTERRUPTION when it is told of a CYCLE_COMPLETE; thrower
\* throws when it is told of a PHASE_TRANSITION.
callback(k, fn, event, hidden) ==
    CASE fn = "halter" /\ event.type = "PHASE_TRANSITION" ->
            dispatch(k, [type |-> "HALT", reason |-> "subscriber"], hidden)
      [] fn = "pauser" /\ event.type = "CYCLE_COMPLETE" ->
            dispatch(k, [type |-> "USER_INTERRUPTION", kind |-> "pause"], hidden)
      [] fn = "thrower" /\ event.type = "PHASE_TRANSITION" ->
            [k EXCEPT !.thrown = TRUE]
      [] OTHER -> k

\* `{ ...this.state }`: a new object with the fields of the state; its
\* belief field refers to the belief object of the kernel
ShallowCopy(k, fn) ==
    [by |-> fn, live |-> FALSE, given |-> k.state,
     belief |-> k.state.belief, sharesBelief |-> TRUE]

\* `this.state`: the state object of the kernel itself
StateObject(k, fn) ==
    [by |-> fn, live |-> TRUE, given |-> k.state,
     belief |-> k.state.belief, sharesBelief |-> TRUE]

\* `this.state.belief.x = ...`: the belief object is changed in place, and
\* every copy that refers to it shows the change
beliefAssignedInPlace(k) ==
    [k EXCEPT !.held = [i \in DOMAIN k.held |->
                           IF k.held[i].sharesBelief
                           THEN [k.held[i] EXCEPT !.belief = k.state.belief]
                           ELSE k.held[i]]]

\* `this.state.belief = ...`: the state refers to a new belief object, and
\* the copies made before keep the old one
beliefReplaced(k) ==
    [k EXCEPT !.held = [i \in DOMAIN k.held |->
                           [k.held[i] EXCEPT !.sharesBelief = FALSE]]]

\* Set.forEach of ZenBKernel.notify: the callbacks are called in the order
\* they were added, each with a copy made when it is called; an exception
\* thrown by the callback called last leaves the loop
RECURSIVE forEach(_, _, _, _)
forEach(k, fns, event, hidden) ==
    IF fns = <<>> \/ k.thrown THEN k
    ELSE forEach(callback([k EXCEPT !.held = Append(@, ShallowCopy(k, Head(fns)))],
                          Head(fns), event, hidden),
                 Tail(fns), event, hidden)

\* mutant: only the callback that was added first is notified
notifyFirstOnly(k, event, hidden) ==
    IF k.thrown THEN k
    ELSE forEach([k EXCEPT !.delivered = Append(@, k.state)],
                 IF k.subscribers = <<>> THEN <<>> ELSE <<Head(k.subscribers)>>,
                 event, hidden)

\* ZenBKernel.notify: every subscriber is called with a copy of the state;
\* the call is not reached when reduce ended with an exception
notify(k, event, hidden) ==
    IF k.thrown THEN k
    ELSE forEach([k EXCEPT !.delivered = Append(@, k.state)], k.subscribers, event, hidden)

\* the assignments of one case of the switch in ZenBKernel.reduce, for
\* every event but TICK (a LOAD_PROTOCOL reaches here with a catalog id)
reduceCase(st, event) ==
    CASE event.type = "LOAD_PROTOCOL" ->
            [st EXCEPT !.pattern = event.patternId,
                       !.phase = "inhale",
                       !.phaseDuration = BREATHING_PATTERNS[event.patternId].timings.inhale,
                       !.phaseElapsed = Zero,
                       !.cycleCount = 0,
                       !.sessionDuration = Zero,
                       !.status = "IDLE",
                       !.belief.rhythm_alignment = Zero]
      [] event.type = "START_SESSION" ->
            IF st.pattern # NoPattern THEN [st EXCEPT !.status = "RUNNING"] ELSE st
      [] event.type = "USER_INTERRUPTION" ->
            IF st.status = "RUNNING"
            THEN [st EXCEPT !.status = "PAUSED",
                            !.belief.attention = RMul(@, R(8, 10)),
                            !.belief.rhythm_alignment = RMul(@, R(5, 10))]
            ELSE st
      [] event.type = "RESUME_SESSION" ->
            IF st.status = "PAUSED" THEN [st EXCEPT !.status = "RUNNING"] ELSE st
      [] event.type = "HALT" -> [st EXCEPT !.status = "IDLE"]
      [] event.type = "SAFETY_INTERVENTION" -> [st EXCEPT !.status = "SAFETY_LOCK"]
      [] event.type = "PHASE_TRANSITION" ->
            [st EXCEPT !.phase = event.to,
                       !.phaseElapsed = Zero,
                       !.phaseDuration =
                           IF st.pattern # NoPattern
                           THEN BREATHING_PATTERNS[st.pattern].timings[event.to]
                           ELSE Zero]
      [] event.type = "CYCLE_COMPLETE" -> [st EXCEPT !.cycleCount = event.count]
      [] OTHER -> st   \* BOOT: no case of the switch

\* mutant: the phase after the current one is taken without skipping
transitionPhaseNoSkip(k, hidden) ==
    IF k.state.pattern = NoPattern THEN k
    ELSE
      LET currentP == k.state.phase
          nextP == Successor(currentP)
          k1 == dispatch(k, [type |-> "PHASE_TRANSITION", from |-> currentP, to |-> nextP],
                         hidden)
      IN  IF isCycleBoundary(nextP)
          THEN dispatch(k1, [type |-> "CYCLE_COMPLETE", count |-> k1.state.cycleCount + 1],
                        hidden)
          ELSE k1

\* mutant: the cycle is counted on leaving inhale instead of on entering it
transitionPhaseCountsOnLeave(k, hidden) ==
    IF k.state.pattern = NoPattern THEN k
    ELSE
      LET currentP == k.state.phase
          nextP == nextPhaseSkipZero(currentP, BREATHING_PATTERNS[k.state.pattern])
          k1 == dispatch(k, [type |-> "PHASE_TRANSITION", from |-> currentP, to |-> nextP],
                         hidden)
      IN  IF isCycleBoundary(currentP)
          THEN dispatch(k1, [type |-> "CYCLE_COMPLETE", count |-> k1.state.cycleCount + 1],
                        hidden)
          ELSE k1

\* mutant: a completed cycle is counted twice
completeCycleTwice(k, nextP, hidden) ==
    IF k.thrown THEN k
    ELSE IF isCycleBoundary(nextP)
    THEN dispatch(k, [type |-> "CYCLE_COMPLETE", count |-> k.state.cycleCount + 2], hidden)
    ELSE k

\* the end of ZenBKernel.transitionPhase, after its PHASE_TRANSITION was
\* dispatched; it is not reached when that dispatch ended with an exception
completeCycle(k, nextP, hidden) ==
    IF k.thrown THEN k
    ELSE IF isCycleBoundary(nextP)
    THEN dispatch(k, [type |-> "CYCLE_COMPLETE", count |-> k.state.cycleCount + 1], hidden)
    ELSE k

\* ZenBKernel.transitionPhase
transitionPhase(k, hidden) ==
    IF k.state.pattern = NoPattern THEN k
    ELSE
      LET currentP == k.state.phase
          nextP == nextPhaseSkipZero(currentP, BREATHING_PATTERNS[k.state.pattern])
      IN  completeCycle(dispatch(k, [type |-> "PHASE_TRANSITION",
                                     from |-> currentP, to |-> nextP], hidden),
                        nextP, hidden)

\* mutant: the Safety Guard is evaluated on every TICK with a pattern loaded
handleTickGuardsAlways(k, dt, hidden) ==
    LET obs == [ delta_time       |-> dt,
                 visibilty_state  |-> IF hidden THEN "hidden" ELSE "visible",
                 user_interaction |-> IF k.state.status = "PAUSED" THEN "pause"
                                      ELSE "undefined" ]
        k1 == [k EXCEPT !.state.belief =
                           update(k.state.belief, obs, k.state.status = "RUNNING")]
    IN  IF k1.state.pattern = NoPattern THEN k1
        ELSE
          LET k2 == IF k1.state.status # "RUNNING" THEN k1
                    ELSE [k1 EXCEPT !.state.phaseElapsed = RAdd(@, dt),
                                    !.state.sessionDuration = RAdd(@, dt)]
              k3 == IF k1.state.status = "RUNNING"
                       /\ RLe(k2.state.phaseDuration, k2.state.phaseElapsed)
                    THEN transitionPhase(k2, hidden)
                    ELSE k2
              hazard == check(k3.state, k3.safetyRegistry)
          IN  IF hazard # Null THEN dispatch(k3, hazard, hidden) ELSE k3

\* mutant: a TICK that overshoots the next phase too makes a second transition
handleTickCatchesUp(k, dt, hidden) ==
    LET obs == [ delta_time       |-> dt,
                 visibilty_state  |-> IF hidden THEN "hidden" ELSE "visible",
                 user_interaction |-> IF k.state.status = "PAUSED" THEN "pause"
                                      ELSE "undefined" ]
        k1 == [k EXCEPT !.state.belief =
                           update(k.state.belief, obs, k.state.status = "RUNNING")]
    IN  IF k1.state.status # "RUNNING" \/ k1.state.pattern = NoPattern THEN k1
        ELSE
          LET k2 == [k1 EXCEPT !.state.phaseElapsed = RAdd(@, dt),
                               !.state.sessionDuration = RAdd(@, dt)]
              once == transitionPhase(k2, hidden)
              k3 == IF ~RLe(k2.state.phaseDuration, k2.state.phaseElapsed) THEN k2
                    ELSE IF RLe(RAdd(k2.state.phaseDuration, once.state.phaseDuration),
                                k2.state.phaseElapsed)
                    THEN transitionPhase(once, hidden)
                    ELSE once
              hazard == check(k3.state, k3.safetyRegistry)
          IN  IF hazard # Null THEN dispatch(k3, hazard, hidden) ELSE k3

\* mutant: raising an intervention drops the records of the registry
handleTickForgetsRecords(k, dt, hidden) ==
    LET obs == [ delta_time       |-> dt,
                 visibilty_state  |-> IF hidden THEN "hidden" ELSE "visible",
                 user_interaction |-> IF k.state.status = "PAUSED" THEN "pause"
                                      ELSE "undefined" ]
        k1 == [k EXCEPT !.state.belief =
                           update(k.state.belief, obs, k.state.status = "RUNNING")]
    IN  IF k1.state.status # "RUNNING" \/ k1.state.pattern = NoPattern THEN k1
        ELSE
          LET k2 == [k1 EXCEPT !.state.phaseElapsed = RAdd(@, dt),
                               !.state.sessionDuration = RAdd(@, dt)]
              k3 == IF RLe(k2.state.phaseDuration, k2.state.phaseElapsed)
                    THEN transitionPhase(k2, hidden)
                    ELSE k2
              hazard == check(k3.state, k3.safetyRegistry)
          IN  IF hazard # Null
              THEN dispatch([k3 EXCEPT !.safetyRegistry = [id \in {} |-> k3.safetyRegistry[id]]],
                            hazard, hidden)
              ELSE k3

\* the end of ZenBKernel.handleTick, the Safety Guard check; it is not
\* reached when the transition ended with an exception
checkSafety(k, hidden) ==
    IF k.thrown THEN k
    ELSE LET hazard == check(k.state, k.safetyRegistry)
         IN  IF hazard # Null THEN dispatch(k, hazard, hidden) ELSE k

\* mutant: the time by which a TICK overshoots a phase is carried into the next
handleTickKeepsOvershoot(k, dt, hidden) ==
    LET obs == [ delta_time       |-> dt,
                 visibilty_state  |-> IF hidden THEN "hidden" ELSE "visible",
                 user_interaction |-> IF k.state.status = "PAUSED" THEN "pause"
                                      ELSE "undefined" ]
        k1 == [beliefReplaced(k) EXCEPT !.state.belief =
                           update(k.state.belief, obs, k.state.status = "RUNNING")]
    IN  IF k1.state.status # "RUNNING" \/ k1.state.pattern = NoPattern THEN k1
        ELSE
          LET k2 == [k1 EXCEPT !.state.phaseElapsed = RAdd(@, dt),
                               !.state.sessionDuration = RAdd(@, dt)]
          IN  checkSafety(IF RLe(k2.state.phaseDuration, k2.state.phaseElapsed)
                          THEN [transitionPhase(k2, hidden) EXCEPT !.state.phaseElapsed =
                                   RSub(k2.state.phaseElapsed, k2.state.phaseDuration)]
                          ELSE k2,
                          hidden)

\* mutant: the session clock runs in every status once a pattern is loaded
handleTickCountsAlways(k, dt, hidden) ==
    LET obs == [ delta_time       |-> dt,
                 visibilty_state  |-> IF hidden THEN "hidden" ELSE "visible",
                 user_interaction |-> IF k.state.status = "PAUSED" THEN "pause"
                                      ELSE "undefined" ]
        k1 == [beliefReplaced(k) EXCEPT !.state.belief =
                           update(k.state.belief, obs, k.state.status = "RUNNING")]
    IN  IF k1.state.pattern = NoPattern THEN k1
        ELSE IF k1.state.status # "RUNNING"
        THEN [k1 EXCEPT !.state.sessionDuration = RAdd(@, dt)]
        ELSE
          LET k2 == [k1 EXCEPT !.state.phaseElapsed = RAdd(@, dt),
                               !.state.sessionDuration = RAdd(@, dt)]
          IN  checkSafety(IF RLe(k2.state.phaseDuration, k2.state.phaseElapsed)
                          THEN transitionPhase(k2, hidden)
                          ELSE k2,
                          hidden)

\* ZenBKernel.handleTick; `hidden` is document.hidden
handleTick(k, dt, hidden) ==
    LET obs == [ delta_time       |-> dt,
                 visibilty_state  |-> IF hidden THEN "hidden" ELSE "visible",
                 user_interaction |-> IF k.state.status = "PAUSED" THEN "pause"
                                      ELSE "undefined" ]
        k1 == [beliefReplaced(k) EXCEPT !.state.belief =
                           update(k.state.belief, obs, k.state.status = "RUNNING")]
    IN  IF k1.state.status # "RUNNING" \/ k1.state.pattern = NoPattern THEN k1
        ELSE
          LET k2 == [k1 EXCEPT !.state.phaseElapsed = RAdd(@, dt),
                               !.state.sessionDuration = RAdd(@, dt)]
          IN  checkSafety(IF RLe(k2.state.phaseDuration, k2.state.phaseElapsed)
                          THEN transitionPhase(k2, hidden)
                          ELSE k2,
                          hidden)

\* mutant: the entropy line is left out
recomputeEntropyNever(k) == k

\* the entropy line that ends ZenBKernel.reduce; it is not reached when the
\* case of the switch ended with an exception
recomputeEntropy(k) ==
    IF k.thrown THEN k
    ELSE [k EXCEPT !.state.entropy = calculateEntropy(k.state.belief)]

\* mutant: a HALT starts the cycle count again
reduceHaltResetsCount(k, event, hidden) ==
    IF event.type = "LOAD_PROTOCOL" /\ event.patternId \notin CatalogIds
    THEN k
    ELSE IF event.type = "TICK"
    THEN recomputeEntropy(handleTick(k, event.dt, hidden))
    ELSE IF event.type = "HALT"
    THEN recomputeEntropy([k EXCEPT !.state = [reduceCase(k.state, event) EXCEPT !.cycleCount = 0]])
    ELSE recomputeEntropy([k EXCEPT !.state = reduceCase(k.state, event)])

\* mutant: a PHASE_TRANSITION keeps the duration of the phase it left
reduceKeepsPhaseDuration(k, event, hidden) ==
    IF event.type = "LOAD_PROTOCOL" /\ event.patternId \notin CatalogIds
    THEN k
    ELSE IF event.type = "TICK"
    THEN recomputeEntropy(handleTick(k, event.dt, hidden))
    ELSE IF event.type = "PHASE_TRANSITION"
    THEN recomputeEntropy([k EXCEPT !.state = [reduceCase(k.state, event)
                                                 EXCEPT !.phaseDuration = k.state.phaseDuration]])
    ELSE recomputeEntropy([k EXCEPT !.state = reduceCase(k.state, event)])

\* mutant: START_SESSION does not look at the pattern
reduceStartsWithoutPattern(k, event, hidden) ==
    IF event.type = "LOAD_PROTOCOL" /\ event.patternId \notin CatalogIds
    THEN k
    ELSE IF event.type = "TICK"
    THEN recomputeEntropy(handleTick(k, event.dt, hidden))
    ELSE IF event.type = "START_SESSION"
    THEN recomputeEntropy([k EXCEPT !.state.status = "RUNNING"])
    ELSE recomputeEntropy([k EXCEPT !.state = reduceCase(k.state, event)])

\* mutant: a LOAD_PROTOCOL leaves the status as it is
reduceLoadKeepsStatus(k, event, hidden) ==
    IF event.type = "LOAD_PROTOCOL" /\ event.patternId \notin CatalogIds
    THEN k
    ELSE IF event.type = "TICK"
    THEN recomputeEntropy(handleTick(k, event.dt, hidden))
    ELSE IF event.type = "LOAD_PROTOCOL"
    THEN recomputeEntropy([k EXCEPT !.state = [reduceCase(k.state, event)
                                                 EXCEPT !.status = k.state.status]])
    ELSE recomputeEntropy([k EXCEPT !.state = reduceCase(k.state, event)])

\* mutant: a LOAD_PROTOCOL of an unknown id ends the session
reduceUnknownLoadHalts(k, event, hidden) ==
    IF event.type = "LOAD_PROTOCOL" /\ event.patternId \notin CatalogIds
    THEN [k EXCEPT !.state.status = "IDLE"]
    ELSE IF event.type = "TICK"
    THEN recomputeEntropy(handleTick(k, event.dt, hidden))
    ELSE recomputeEntropy([k EXCEPT !.state = reduceCase(k.state, event)])

\* mutant: the pause penalty is applied twice
reducePenaltyTwice(k, event, hidden) ==
    IF event.type = "LOAD_PROTOCOL" /\ event.patternId \notin CatalogIds
    THEN k
    ELSE IF event.type = "TICK"
    THEN recomputeEntropy(handleTick(k, event.dt, hidden))
    ELSE IF event.type = "USER_INTERRUPTION"
    THEN recomputeEntropy([k EXCEPT !.state =
            reduceCase([reduceCase(k.state, event) EXCEPT !.status = k.state.status], event)])
    ELSE recomputeEntropy([k EXCEPT !.state = reduceCase(k.state, event)])

\* mutant: the pause penalty on attention does not look at the status
reducePenaltyInAnyStatus(k, event, hidden) ==
    IF event.type = "LOAD_PROTOCOL" /\ event.patternId \notin CatalogIds
    THEN k
    ELSE IF event.type = "TICK"
    THEN recomputeEntropy(handleTick(k, event.dt, hidden))
    ELSE IF event.type = "USER_INTERRUPTION"
    THEN recomputeEntropy([k EXCEPT !.state = [reduceCase(k.state, event) EXCEPT
            !.belief.attention = RMul(k.state.belief.attention, R(8, 10))]])
    ELSE recomputeEntropy([k EXCEPT !.state = reduceCase(k.state, event)])

\* mutant: a HALT does not release a SAFETY_LOCK
reduceHaltKeepsLock(k, event, hidden) ==
    IF event.type = "LOAD_PROTOCOL" /\ event.patternId \notin CatalogIds
    THEN k
    ELSE IF event.type = "TICK"
    THEN recomputeEntropy(handleTick(k, event.dt, hidden))
    ELSE IF event.type = "HALT" /\ k.state.status = "SAFETY_LOCK"
    THEN recomputeEntropy(k)
    ELSE recomputeEntropy([k EXCEPT !.state = reduceCase(k.state, event)])

\* mutant: a SAFETY_INTERVENTION starts the phase again
reduceLockRewinds(k, event, hidden) ==
    IF event.type = "LOAD_PROTOCOL" /\ event.patternId \notin CatalogIds
    THEN k
    ELSE IF event.type = "TICK"
    THEN recomputeEntropy(handleTick(k, event.dt, hidden))
    ELSE IF event.type = "SAFETY_INTERVENTION"
    THEN recomputeEntropy([k EXCEPT !.state = [reduceCase(k.state, event)
                                                 EXCEPT !.phaseElapsed = Zero]])
    ELSE recomputeEntropy(beliefAssignedInPlace([k EXCEPT !.state = reduceCase(k.state, event)]))

\* mutant: a HALT sets the declared status HALTED
reduceHaltsToHalted(k, event, hidden) ==
    IF event.type = "LOAD_PROTOCOL" /\ event.patternId \notin CatalogIds
    THEN k
    ELSE IF event.type = "TICK"
    THEN recomputeEntropy(handleTick(k, event.dt, hidden))
    ELSE IF event.type = "HALT"
    THEN recomputeEntropy([k EXCEPT !.state.status = "HALTED"])
    ELSE recomputeEntropy(beliefAssignedInPlace([k EXCEPT !.state = reduceCase(k.state, event)]))

\* ZenBKernel.reduce; a LOAD_PROTOCOL of an id that is not in the catalog
\* returns from the function before its last line
reduce(k, event, hidden) ==
    IF event.type = "LOAD_PROTOCOL" /\ event.patternId \notin CatalogIds
    THEN k
    ELSE IF event.type = "TICK"
    THEN recomputeEntropy(handleTick(k, event.dt, hidden))
    ELSE recomputeEntropy(beliefAssignedInPlace([k EXCEPT !.state = reduceCase(k.state, event)]))

\* mutant: the event is logged after it was reduced
dispatchLogsLast(k, event, hidden) ==
    LET reduced == reduce([k EXCEPT !.dispatchCalls = @ + 1], event, hidden)
    IN  notify([reduced EXCEPT !.eventLog = Append(@, event)], event, hidden)

\* mutant: a LOAD_PROTOCOL of an unknown id is not logged
dispatchLogsValidOnly(k, event, hidden) ==
    LET logged == [k EXCEPT !.eventLog =
                               IF event.type = "LOAD_PROTOCOL" /\ event.patternId \notin CatalogIds
                               THEN @ ELSE Append(@, event),
                            !.dispatchCalls = @ + 1]
    IN  notify(reduce(logged, event, hidden), event, hidden)

\* mutant: a dispatch that left the state as it was notifies nobody
notifyIfChanged(k, was, event, hidden) ==
    IF k.state = was THEN k ELSE notify(k, event, hidden)

dispatchSkipsNoOps(k, event, hidden) ==
    LET logged == [k EXCEPT !.eventLog = Append(@, event),
                            !.dispatchCalls = @ + 1]
    IN  notifyIfChanged(reduce(logged, event, hidden), k.state, event, hidden)

\* ZenBKernel.dispatch: log, reduce, notify
dispatch(k, event, hidden) ==
    LET logged == [k EXCEPT !.eventLog = Append(@, event),
                            !.dispatchCalls = @ + 1]
    IN  notify(reduce(logged, event, hidden), event, hidden)

\* ZenBKernel.subscribe: the callback is added to the Set (a callback that is
\* in it already is not added again) and called with the state object
subscribe(k, fn, hidden) ==
    callback([k EXCEPT !.subscribers = IF \E i \in DOMAIN @ : @[i] = fn
                                       THEN @ ELSE Append(@, fn),
                       !.held = Append(@, StateObject(k, fn))],
             fn, NoEvent, hidden)

\* the function ZenBKernel.subscribe returns: the callback is deleted
unsubscribe(k, fn) ==
    [k EXCEPT !.subscribers = SelectSeq(@, LAMBDA f : f # fn)]

\* the kernel object after `new ZenBKernel()`: the constructor emits BOOT
NoRegistry == [id \in {} |-> [resonance_score |-> Zero]]

constructor ==
    dispatch([ state          |-> getInitialState,
               eventLog       |-> <<>>,
               safetyRegistry |-> NoRegistry,
               subscribers    |-> <<>>,
               delivered      |-> <<>>,
               dispatchCalls  |-> 0,
               held           |-> <<>>,
               thrown         |-> FALSE ],
             [type |-> "BOOT"], FALSE)

(***************************************************************************)
(* The kernel as a state machine: one action per public operation          *)
(***************************************************************************)
VARIABLES
    state,           \* ZenBKernel.state
    eventLog,        \* ZenBKernel.eventLog
    safetyRegistry,  \* ZenBKernel.safetyRegistry
    hidden,          \* document.hidden of the host page
    delivered,       \* the snapshots handed to a subscriber by the last dispatch
    dispatchCalls,   \* the number of dispatch() calls made since construction
    steps,           \* the number of external calls counted against MaxSteps
    subscribers,     \* ZenBKernel.subscribers, in the order the Set iterates
    held,            \* the objects handed to callbacks, as seen through them now
    thrown,          \* the last call of the kernel ended with an exception
    lastTime,        \* lastTimeRef.current of useBreathEngine, in milliseconds
    now,             \* the host clock: the last reading the hook was given
    displayLastTime, \* lastTimeRef.current of the instance ActiveSessionDisplay mounts
    bridge,          \* the refs of the hook's subscriber and what it did in the last step
    traumaRegistry,  \* userSettings.traumaRegistry of the settings store
    args,            \* the arguments of a call of a function of the inference model
    result           \* what that call returned

vars == <<state, eventLog, safetyRegistry, hidden, delivered, dispatchCalls, steps,
          subscribers, held, thrown, lastTime, now, displayLastTime, bridge,
          traumaRegistry, args, result>>

\* the variables of a direct call of the inference model
call == <<args, result>>

\* no direct call of the inference model is made
NoCall == [fn |-> "none"]

\* `useRef<number>(0)`: lastTimeRef before the driver loop has run
NoLoop == 0

\* performance.now() counts the milliseconds since the time origin of the page
TimeOrigin == 0

\* the variables of the UI layer beyond the loop of one instance of the hook
ui == <<displayLastTime, bridge, traumaRegistry>>

\* the refs of useBreathEngine as it declares them, nothing heard yet
NoBridge ==
    [ progress  |-> Zero,
      entropy   |-> Zero,
      prevPhase |-> "inhale",
      heard     |-> <<>> ]

\* no second loop has run, no notification was heard and no session was
\* registered
NoUI ==
    /\ displayLastTime = NoLoop
    /\ bridge = NoBridge
    /\ traumaRegistry = NoRegistry

\* the engine hook has not run yet
Unmounted ==
    /\ lastTime = NoLoop
    /\ now = TimeOrigin
    /\ NoUI

Uncalled ==
    /\ args = NoCall
    /\ result = NoCall

\* the variables of the host that a call of the kernel leaves alone
host == <<hidden, lastTime, now, ui, args, result>>

\* the kernel object of the current state, before an operation delivers anything
Kernel ==
    [ state          |-> state,
      eventLog       |-> eventLog,
      safetyRegistry |-> safetyRegistry,
      subscribers    |-> subscribers,
      delivered      |-> <<>>,
      dispatchCalls  |-> dispatchCalls,
      held           |-> held,
      thrown         |-> FALSE ]

\* the variables hold the fields of kernel object k
Holds(k) ==
    /\ state = k.state
    /\ eventLog = k.eventLog
    /\ safetyRegistry = k.safetyRegistry
    /\ delivered = k.delivered
    /\ dispatchCalls = k.dispatchCalls
    /\ subscribers = k.subscribers
    /\ held = k.held
    /\ thrown = k.thrown

\* the variables take the fields of kernel object k
Becomes(k) ==
    /\ state' = k.state
    /\ eventLog' = k.eventLog
    /\ safetyRegistry' = k.safetyRegistry
    /\ delivered' = k.delivered
    /\ dispatchCalls' = k.dispatchCalls
    /\ subscribers' = k.subscribers
    /\ held' = k.held
    /\ thrown' = k.thrown

\* kernel.dispatch(event) called from outside the kernel
Dispatched(event) ==
    /\ Becomes(dispatch(Kernel, event, hidden))
    /\ UNCHANGED host

\* a run makes at most MaxSteps counted external dispatches
MaxSteps == 4

Counted ==
    /\ steps < MaxSteps
    /\ steps' = steps + 1

LoadProtocol(ids) ==
    \E id \in ids :
        /\ Counted
        /\ Dispatched([type |-> "LOAD_PROTOCOL", patternId |-> id])

StartSession ==
    /\ Counted
    /\ Dispatched([type |-> "START_SESSION"])

UserInterruption ==
    /\ Counted
    /\ Dispatched([type |-> "USER_INTERRUPTION", kind |-> "pause"])

ResumeSession ==
    /\ Counted
    /\ Dispatched([type |-> "RESUME_SESSION"])

Halt ==
    /\ Counted
    /\ Dispatched([type |-> "HALT", reason |-> "cleanup"])

Tick(dts) ==
    \E dt \in dts :
        /\ Counted
        /\ Dispatched([type |-> "TICK", dt |-> dt])

\* kernel.setSafetyRegistry(registry)
SetSafetyRegistry(registries) ==
    \E registry \in registries :
        /\ registry # safetyRegistry
        /\ safetyRegistry' = registry
        /\ UNCHANGED <<state, eventLog, delivered, dispatchCalls, subscribers, held,
                       thrown, steps, host>>

\* the host page is hidden or shown
VisibilityChange ==
    /\ hidden' = ~hidden
    /\ UNCHANGED <<state, eventLog, safetyRegistry, delivered, dispatchCalls,
                   subscribers, held, thrown, steps, lastTime, now, ui, call>>

(***************************************************************************)
(* Spec: every command in every order, on a small set of inputs            *)
(***************************************************************************)
\* an id that is not in the catalog
UnknownId == "unknown"

PatternInputs == {"box", UnknownId}

DtInputs == {R(1, 1), R(3, 1), R(4, 1)}

Record(score) == [resonance_score |-> score]

RegistryInputs == {NoRegistry, [box |-> Record(R(1, 10))], [box |-> Record(R(3, 10))]}

Init ==
    /\ Holds(constructor)
    /\ hidden = FALSE
    /\ steps = 0
    /\ Uncalled
    /\ Unmounted

Next ==
    \/ LoadProtocol(PatternInputs)
    \/ StartSession
    \/ UserInterruption
    \/ ResumeSession
    \/ Halt
    \/ Tick(DtInputs)
    \/ SetSafetyRegistry(RegistryInputs)
    \/ VisibilityChange

Spec == Init /\ [][Next]_vars

(***************************************************************************)
(* SpecSession: a session of any catalog pattern, as the engine hook       *)
(* starts it (useBreathEngine.ts dispatches LOAD_PROTOCOL, START_SESSION   *)
(* when a session becomes active), then ticked, paused and resumed, or     *)
(* replaced by a session of another pattern                                *)
(***************************************************************************)
\* the kernel after one more dispatch, which alone fills `delivered`
After(k, event) == dispatch([k EXCEPT !.delivered = <<>>], event, FALSE)

\* the kernel once the engine hook has started a session of pattern `id`
Started(id) ==
    After(After(constructor, [type |-> "LOAD_PROTOCOL", patternId |-> id]),
          [type |-> "START_SESSION"])

SessionDts == {R(3, 2), R(4, 1), R(6, 1), R(11, 1)}

\* the kernel as constructed, or with a session of a catalog pattern started
InitSession ==
    /\ \/ Holds(constructor)
       \/ \E id \in CatalogIds : Holds(Started(id))
    /\ hidden = FALSE
    /\ steps = 0
    /\ Uncalled
    /\ Unmounted

\* the pattern a running session is replaced by
SessionReloads == {"buteyko"}

NextSession ==
    \/ Tick(SessionDts)
    \/ UserInterruption
    \/ ResumeSession
    \/ LoadProtocol(SessionReloads)
    \/ StartSession

SpecSession == InitSession /\ [][NextSession]_vars

(***************************************************************************)
(* SpecLong: a long session.  The host first ticks a started session,      *)
(* visible, until LongCycles cycles are complete (these dispatches are not *)
(* counted against MaxSteps); from then on every command but LOAD_PROTOCOL *)
(* comes in every order.                                                   *)
(***************************************************************************)
LongCycles == 30

\* a tier 2 pattern, which the watchdog covers, and a tier 3 pattern, which it does not
LongPatterns == {"awake", "buteyko"}

LongDts == {R(1, 1), R(11, 1)}

LongRegistries ==
    {NoRegistry, [awake |-> Record(R(1, 10)), buteyko |-> Record(R(1, 10))]}

InitLong ==
    /\ \E id \in LongPatterns : Holds(Started(id))
    /\ hidden = FALSE
    /\ steps = 0
    /\ Uncalled
    /\ Unmounted

WarmedUp == state.cycleCount >= LongCycles

WarmUpTick ==
    /\ ~WarmedUp
    /\ steps = 0
    /\ Dispatched([type |-> "TICK", dt |-> R(4, 1)])
    /\ UNCHANGED steps

LongStartSession == WarmedUp /\ StartSession

LongUserInterruption == WarmedUp /\ UserInterruption

LongResumeSession == WarmedUp /\ ResumeSession

LongHalt == WarmedUp /\ Halt

\* the long session is replaced by a freshly loaded one, which ends the run
LongLoadProtocol == WarmedUp /\ LoadProtocol(LongPatterns)

LongTick == WarmedUp /\ Tick(LongDts)

LongSetSafetyRegistry == WarmedUp /\ SetSafetyRegistry(LongRegistries)

LongVisibilityChange == WarmedUp /\ VisibilityChange

NextLong ==
    \/ WarmUpTick
    \/ LongStartSession
    \/ LongUserInterruption
    \/ LongResumeSession
    \/ LongHalt
    \/ LongLoadProtocol
    \/ LongTick
    \/ LongSetSafetyRegistry
    \/ LongVisibilityChange

SpecLong == InitLong /\ [][NextLong]_vars

(***************************************************************************)
(* SpecInference: the two functions of ActiveInferenceModel called         *)
(* directly, on a grid of beliefs in [0,1]^3 and of observations           *)
(***************************************************************************)
\* the values a belief component takes: both ends, and values a step of the
\* rule moves across an end and values it does not
UnitGrid == {Zero, R(3, 10), R(1, 2), R(9, 10), One}

BeliefGrid ==
    {Belief(a, t, r) : a \in UnitGrid, t \in UnitGrid, r \in UnitGrid}

\* dt = 0, a frame, and steps that reach the clamps
DeltaTimes == {Zero, R(1, 60), R(1, 1), R(3, 1), R(20, 1)}

Observations ==
    [ delta_time       : DeltaTimes,
      visibilty_state  : {"visible", "hidden"},
      user_interaction : {"pause", "undefined"} ]

UpdateArgs ==
    [ fn : {"update"}, belief : BeliefGrid, observation : Observations,
      isRunning : BOOLEAN ]

\* calculateEntropy is called on two beliefs, to compare what it returns
EntropyArgs ==
    [ fn : {"calculateEntropy"}, belief : BeliefGrid, other : BeliefGrid ]

InitInference ==
    /\ Holds(constructor)
    /\ hidden = FALSE
    /\ steps = 0
    /\ args \in UpdateArgs \cup EntropyArgs
    /\ result = NoCall
    /\ Unmounted

\* inference.update(belief, observation, isRunning)
CallUpdate ==
    /\ args.fn = "update"
    /\ result = NoCall
    /\ result' = [fn |-> "update",
                  value |-> update(args.belief, args.observation, args.isRunning)]
    /\ UNCHANGED <<state, eventLog, safetyRegistry, hidden, delivered, dispatchCalls,
                   subscribers, held, thrown, steps, lastTime, now, ui, args>>

\* inference.calculateEntropy(belief), for both beliefs
CallCalculateEntropy ==
    /\ args.fn = "calculateEntropy"
    /\ result = NoCall
    /\ result' = [fn |-> "calculateEntropy",
                  value |-> calculateEntropy(args.belief),
                  other |-> calculateEntropy(args.other)]
    /\ UNCHANGED <<state, eventLog, safetyRegistry, hidden, delivered, dispatchCalls,
                   subscribers, held, thrown, steps, lastTime, now, ui, args>>

NextInference ==
    \/ CallUpdate
    \/ CallCalculateEntropy

SpecInference == InitInference /\ [][NextInference]_vars

(***************************************************************************)
(* SpecObservers: callbacks subscribe to and unsubscribe from a kernel     *)
(* that runs a session of awake (inhale 4 s, exhale 2 s) with a low        *)
(* resonance record; every callback returns normally, halter and pauser    *)
(* dispatch from inside a notification.  SpecThrowing: the same session    *)
(* with a callback that throws.                                            *)
(***************************************************************************)
\* kernel.subscribe(fn)
Subscribe(fns) ==
    \E fn \in fns :
        /\ Counted
        /\ Becomes(subscribe(Kernel, fn, hidden))
        /\ UNCHANGED host

\* the function kernel.subscribe(fn) returned is called
Unsubscribe(fns) ==
    \E fn \in fns :
        /\ \E i \in DOMAIN subscribers : subscribers[i] = fn
        /\ Counted
        /\ Becomes(unsubscribe(Kernel, fn))
        /\ UNCHANGED host

ObserverFns == {"observer", "halter", "pauser"}

ThrowingFns == {"observer", "thrower"}

ObserverDts == {R(1, 1), R(4, 1)}

\* setSafetyRegistry with a low record for awake, then a session of awake
InitObservers ==
    /\ Holds([Started("awake") EXCEPT !.safetyRegistry = [awake |-> Record(R(1, 10))]])
    /\ hidden = FALSE
    /\ steps = 0
    /\ Uncalled
    /\ Unmounted

NextObservers ==
    \/ Subscribe(ObserverFns)
    \/ Unsubscribe(ObserverFns)
    \/ Tick(ObserverDts)
    \/ UserInterruption
    \/ StartSession
    \/ VisibilityChange

SpecObservers == InitObservers /\ [][NextObservers]_vars

NextThrowing ==
    \/ Subscribe(ThrowingFns)
    \/ Unsubscribe(ThrowingFns)
    \/ Tick(ObserverDts)
    \/ StartSession
    \/ VisibilityChange

SpecThrowing == InitObservers /\ [][NextThrowing]_vars

(***************************************************************************)
(* SpecDriver: useBreathEngine's heartbeat.  The hook has started a        *)
(* session of box and its loop; animation frames arrive with the host      *)
(* clock ahead of, equal to or behind the last reading, the user pauses    *)
(* and resumes, and time passes while the loop is cancelled.  Times are    *)
(* in milliseconds.                                                        *)
(***************************************************************************)
\* the kernel variables
kernel == <<state, eventLog, safetyRegistry, delivered, dispatchCalls, subscribers,
            held, thrown>>

\* mutant: a frame that dispatches nothing keeps the last reading
loopKeepsLastTime(time) ==
    LET dt == R(time - lastTime, 1000)
    IN  IF RLt(Zero, dt) /\ RLt(dt, One)
        THEN /\ lastTime' = time
             /\ Becomes(dispatch(Kernel, [type |-> "TICK", dt |-> dt], hidden))
        ELSE /\ lastTime' = lastTime
             /\ UNCHANGED kernel

\* useBreathEngine.loop(time): one animation frame
loop(time) ==
    LET dt == R(time - lastTime, 1000)
    IN  /\ lastTime' = time
        /\ IF RLt(Zero, dt) /\ RLt(dt, One)
           THEN Becomes(dispatch(Kernel, [type |-> "TICK", dt |-> dt], hidden))
           ELSE UNCHANGED kernel

\* the differences between two readings of the host clock
FrameGaps == {0 - 5, 0, 16, 500, 999, 1000, 2500}

\* requestAnimationFrame calls the loop, which is scheduled while the session
\* is active and not paused
Frame ==
    \E gap \in FrameGaps :
        /\ state.status = "RUNNING"
        /\ Counted
        /\ now' = now + gap
        /\ loop(now + gap)
        /\ UNCHANGED <<hidden, ui, call>>

\* isPaused becomes true: the pause effect dispatches, the loop is cancelled
DriverPause ==
    /\ state.status = "RUNNING"
    /\ Counted
    /\ Becomes(dispatch(Kernel, [type |-> "USER_INTERRUPTION", kind |-> "pause"], hidden))
    /\ UNCHANGED host

\* time passes while no frame is scheduled
Elapse ==
    \E gap \in FrameGaps :
        /\ gap > 0
        /\ state.status = "PAUSED"
        /\ Counted
        /\ now' = now + gap
        /\ UNCHANGED <<kernel, hidden, lastTime, ui, call>>

\* isPaused becomes false: the resume effect dispatches, the loop effect
\* reads the clock and schedules the loop
DriverResume ==
    /\ state.status = "PAUSED"
    /\ Counted
    /\ Becomes(dispatch(Kernel, [type |-> "RESUME_SESSION"], hidden))
    /\ lastTime' = now
    /\ UNCHANGED <<hidden, now, ui, call>>

\* the start effect has dispatched LOAD_PROTOCOL and START_SESSION, the
\* resume effect RESUME_SESSION, and the loop effect has read the clock
InitDriver ==
    /\ Holds(After(Started("box"), [type |-> "RESUME_SESSION"]))
    /\ hidden = FALSE
    /\ steps = 0
    /\ Uncalled
    /\ now = TimeOrigin
    /\ lastTime = now
    /\ NoUI

NextDriver ==
    \/ Frame
    \/ DriverPause
    \/ Elapse
    \/ DriverResume

SpecDriver == InitDriver /\ [][NextDriver]_vars

(***************************************************************************)
(* SpecHeartbeat: a session that only the heartbeat drives.  A started     *)
(* session of a catalog pattern is ticked, visible and without a safety    *)
(* record, and nothing else is dispatched; the TICKs keep arriving (weak   *)
(* fairness) until CycleGoal cycles are complete.                          *)
(***************************************************************************)
CycleGoal == 2

\* patterns with two phases: a short and a shorter cycle
HeartbeatPatterns == {"awake", "wimHof"}

\* less than every phase, more than some phases, more than every phase
HeartbeatDts == {R(3, 2), R(4, 1), R(11, 1)}

InitHeartbeat ==
    /\ \E id \in HeartbeatPatterns : Holds(Started(id))
    /\ hidden = FALSE
    /\ steps = 0
    /\ Uncalled
    /\ Unmounted

HeartbeatTick ==
    \E dt \in HeartbeatDts :
        /\ state.cycleCount < CycleGoal
        /\ Dispatched([type |-> "TICK", dt |-> dt])
        /\ UNCHANGED steps

NextHeartbeat == HeartbeatTick

\* a TICK arrives: dispatch is entered for the TICK and for each event the
\* kernel raises while handling it (PHASE_TRANSITION, CYCLE_COMPLETE and the
\* guard's intervention).  dispatch is total, so a TICK can arrive whenever
\* the goal is not reached: the steps of NextHeartbeat are these steps.
TickArrives ==
    /\ state.cycleCount < CycleGoal
    /\ \E n \in 1 .. 4 : dispatchCalls' = dispatchCalls + n

SpecHeartbeat ==
    InitHeartbeat /\ [][NextHeartbeat]_vars /\ WF_dispatchCalls(TickArrives)

(***************************************************************************)
(* SpecMounts: the application as it is rendered.  App calls               *)
(* useBreathEngine and renders ActiveSessionDisplay, which calls it too,   *)
(* so two instances of the hook are mounted on the one kernel, each with   *)
(* its own refs, effects and loop.  React runs the effects of the child    *)
(* before those of its parent, and the animation frame callbacks in the    *)
(* order they were requested, all with the time of the frame.              *)
(***************************************************************************)
\* useBreathEngine.loop(time) of the instance whose lastTimeRef holds `last`,
\* as a function of the kernel
loopOf(k, last, time, documentHidden) ==
    IF RLt(Zero, R(time - last, 1000)) /\ RLt(R(time - last, 1000), One)
    THEN dispatch(k, [type |-> "TICK", dt |-> R(time - last, 1000)], documentHidden)
    ELSE k

\* the start effect and the pause effect of one instance while isActive is
\* false: HALT, and nothing
idleEffects(k) == After(k, [type |-> "HALT", reason |-> "cleanup"])

\* the start effect and the pause effect of one instance once isActive is
\* true and isPaused false
activeEffects(k, id) ==
    After(After(After(k, [type |-> "LOAD_PROTOCOL", patternId |-> id]),
                [type |-> "START_SESSION"]),
          [type |-> "RESUME_SESSION"])

\* the kernel once both instances are mounted and the user has started a
\* session of pattern `id`
Mounted(id) ==
    activeEffects(activeEffects(idleEffects(idleEffects(constructor)), id), id)

\* the differences between the times of two animation frames
MountGaps == {0, 16, 500, 999, 1000, 2500}

\* the variables hold kernel object k, which no dispatch has touched if its
\* count of dispatches is the old one
Settled(k) ==
    IF k.dispatchCalls = dispatchCalls THEN UNCHANGED kernel ELSE Becomes(k)

\* an animation frame: the loop of ActiveSessionDisplay's instance runs, then
\* the loop of App's
MountedFrame ==
    \E gap \in MountGaps :
        /\ state.status = "RUNNING"
        /\ Counted
        /\ now' = now + gap
        /\ Settled(loopOf(loopOf(Kernel, displayLastTime, now + gap, hidden),
                          lastTime, now + gap, hidden))
        /\ displayLastTime' = now + gap
        /\ lastTime' = now + gap
        /\ UNCHANGED <<hidden, bridge, traumaRegistry, call>>

\* isPaused becomes true: the pause effect of each instance dispatches, the
\* loops are cancelled
MountedPause ==
    /\ state.status = "RUNNING"
    /\ Counted
    /\ Becomes(dispatch(dispatch(Kernel, [type |-> "USER_INTERRUPTION", kind |-> "pause"], hidden),
                        [type |-> "USER_INTERRUPTION", kind |-> "pause"], hidden))
    /\ UNCHANGED host

\* isPaused becomes false: the pause effect of each instance dispatches, the
\* loop effect of each reads the clock and schedules its loop
MountedResume ==
    /\ state.status = "PAUSED"
    /\ Counted
    /\ Becomes(dispatch(dispatch(Kernel, [type |-> "RESUME_SESSION"], hidden),
                        [type |-> "RESUME_SESSION"], hidden))
    /\ displayLastTime' = now
    /\ lastTime' = now
    /\ UNCHANGED <<hidden, now, bridge, traumaRegistry, call>>

InitMounts ==
    /\ Holds(Mounted("box"))
    /\ hidden = FALSE
    /\ steps = 0
    /\ Uncalled
    /\ now = TimeOrigin
    /\ lastTime = now
    /\ displayLastTime = now
    /\ bridge = NoBridge
    /\ traumaRegistry = NoRegistry

NextMounts ==
    \/ MountedFrame
    \/ MountedPause
    \/ Elapse
    \/ MountedResume

SpecMounts == InitMounts /\ [][NextMounts]_vars

(***************************************************************************)
(* SpecBridge: the subscriber of useBreathEngine.  The hook subscribes     *)
(* when it mounts; the session store is not part of the sources, so what   *)
(* the subscriber reads from it (getState().cycleCount) is any value of    *)
(* StoredCycles, and stopSession and syncState are recorded as calls.      *)
(* `did` lists what one call of the subscriber did, in order.              *)
(***************************************************************************)
\* mutant: the lockout calls stopSession and goes on
subscriberGoesOn(refs, stored, st) ==
    [ progress  |-> RMax(Zero, RMin(R(st.phaseElapsed[1] * RMax(st.phaseDuration, R(1, 1000000))[2],
                                      st.phaseElapsed[2] * RMax(st.phaseDuration, R(1, 1000000))[1]),
                                    One)),
      entropy   |-> st.entropy,
      prevPhase |-> IF st.phase # refs.prevPhase /\ st.status = "RUNNING"
                    THEN st.phase ELSE refs.prevPhase,
      heard     |-> Append(refs.heard,
                      [ state |-> st,
                        did   |-> (IF st.status = "SAFETY_LOCK"
                                   THEN <<"console.warn", "stopSession">> ELSE <<>>)
                                  \o <<"progressRef", "entropyRef">>
                                  \o (IF st.phase # refs.prevPhase \/ st.cycleCount # stored
                                      THEN <<"syncState">> ELSE <<>>)
                                  \o (IF st.phase # refs.prevPhase /\ st.status = "RUNNING"
                                      THEN <<"hapticPhase", "playCue", "prevPhaseRef">>
                                      ELSE <<>>) ]) ]

\* the callback useBreathEngine passes to kernel.subscribe, called with `st`
\* while the refs are `refs` and the store's cycleCount is `stored`
subscriber(refs, stored, st) ==
    IF st.status = "SAFETY_LOCK"
    THEN [refs EXCEPT !.heard = Append(@, [state |-> st,
                                           did   |-> <<"console.warn", "stopSession">>])]
    ELSE [ progress  |-> RMax(Zero, RMin(R(st.phaseElapsed[1] * RMax(st.phaseDuration, R(1, 1000000))[2],
                                           st.phaseElapsed[2] * RMax(st.phaseDuration, R(1, 1000000))[1]),
                                         One)),
           entropy   |-> st.entropy,
           prevPhase |-> IF st.phase # refs.prevPhase /\ st.status = "RUNNING"
                         THEN st.phase ELSE refs.prevPhase,
           heard     |-> Append(refs.heard,
                           [ state |-> st,
                             did   |-> <<"progressRef", "entropyRef">>
                                       \o (IF st.phase # refs.prevPhase \/ st.cycleCount # stored
                                           THEN <<"syncState">> ELSE <<>>)
                                       \o (IF st.phase # refs.prevPhase /\ st.status = "RUNNING"
                                           THEN <<"hapticPhase", "playCue", "prevPhaseRef">>
                                           ELSE <<>>) ]) ]

\* the subscriber is called with each of `calls` in turn
RECURSIVE hear(_, _, _)
hear(refs, stored, calls) ==
    IF calls = <<>> THEN refs
    ELSE hear(subscriber(refs, stored, Head(calls).given), stored, Tail(calls))

\* the calls of the hook's subscriber that are among `calls`
ToDriver(calls) == SelectSeq(calls, LAMBDA h : h.by = "driver")

\* values of the session store's cycleCount
StoredCycles == {0, 1}

\* the kernel did what made it k: the subscriber heard what k handed to it
\* beyond what was held before
Bridged(k, stored) ==
    /\ Becomes(k)
    /\ bridge' = hear([bridge EXCEPT !.heard = <<>>], stored,
                      ToDriver(SubSeq(k.held, Len(held) + 1, Len(k.held))))
    /\ UNCHANGED <<hidden, lastTime, now, displayLastTime, traumaRegistry, call>>

BridgeDts == {R(1, 1), R(4, 1)}

\* the loop dispatches a TICK
BridgeTick ==
    \E dt \in BridgeDts, stored \in StoredCycles :
        /\ Counted
        /\ Bridged(dispatch(Kernel, [type |-> "TICK", dt |-> dt], hidden), stored)

\* isPaused becomes true
BridgePause ==
    \E stored \in StoredCycles :
        /\ state.status = "RUNNING"
        /\ Counted
        /\ Bridged(dispatch(Kernel, [type |-> "USER_INTERRUPTION", kind |-> "pause"], hidden),
                   stored)

\* isPaused becomes false
BridgeResume ==
    \E stored \in StoredCycles :
        /\ state.status = "PAUSED"
        /\ Counted
        /\ Bridged(dispatch(Kernel, [type |-> "RESUME_SESSION"], hidden), stored)

\* isActive becomes false, as after stopSession: the start effect halts
BridgeCleanup ==
    \E stored \in StoredCycles :
        /\ state.status # "IDLE"
        /\ Counted
        /\ Bridged(dispatch(Kernel, [type |-> "HALT", reason |-> "cleanup"], hidden), stored)

\* the hook mounted on a new kernel and subscribed, three sessions of awake
\* went badly, and the user has started another
BridgeKernel ==
    activeEffects([subscribe(idleEffects(constructor), "driver", FALSE)
                      EXCEPT !.safetyRegistry = [awake |-> Record(R(1, 10))]],
                  "awake")

InitBridge ==
    /\ Holds(BridgeKernel)
    /\ hidden = FALSE
    /\ steps = 0
    /\ Uncalled
    /\ lastTime = NoLoop
    /\ now = TimeOrigin
    /\ displayLastTime = NoLoop
    /\ traumaRegistry = NoRegistry
    /\ bridge = [hear(NoBridge, 0, ToDriver(BridgeKernel.held)) EXCEPT !.heard = <<>>]

NextBridge ==
    \/ BridgeTick
    \/ BridgePause
    \/ BridgeResume
    \/ BridgeCleanup
    \/ VisibilityChange

SpecBridge == InitBridge /\ [][NextBridge]_vars

(***************************************************************************)
(* SpecRegistry: settingsStore.registerSessionComplete.  The settings      *)
(* store keeps the trauma registry and hands each new one to the kernel.   *)
(* Its history and streak, which no guard reads, are left out; the         *)
(* Date.now() of last_updated is the host clock.                           *)
(***************************************************************************)
\* mutant: the score is moved without the cap and the floor
registerSessionCompleteUnclamped(registry, kernelState, durationSec, patternId, time) ==
    LET record == IF patternId \in DOMAIN registry
                  THEN registry[patternId]
                  ELSE [ patternId              |-> patternId,
                         total_exposure_seconds |-> 0,
                         adverse_events         |-> 0,
                         resonance_score        |-> R(1, 2),
                         last_updated           |-> time ]
        isSuccess == durationSec > 45 /\ RLt(kernelState.entropy, R(1, 2))
    IN  [id \in DOMAIN registry \cup {patternId} |->
            IF id = patternId
            THEN [record EXCEPT
                    !.total_exposure_seconds = @ + durationSec,
                    !.last_updated = time,
                    !.adverse_events = IF isSuccess THEN @ ELSE @ + 1,
                    !.resonance_score = IF isSuccess
                                        THEN RAdd(@, R(5, 100))
                                        ELSE RSub(@, R(1, 10))]
            ELSE registry[id]]

\* the registry registerSessionComplete(durationSec, patternId, cycles)
\* builds from the stored one, kernel.getState() being kernelState
registerSessionComplete(registry, kernelState, durationSec, patternId, time) ==
    LET record == IF patternId \in DOMAIN registry
                  THEN registry[patternId]
                  ELSE [ patternId              |-> patternId,
                         total_exposure_seconds |-> 0,
                         adverse_events         |-> 0,
                         resonance_score        |-> R(1, 2),
                         last_updated           |-> time ]
        isSuccess == durationSec > 45 /\ RLt(kernelState.entropy, R(1, 2))
    IN  [id \in DOMAIN registry \cup {patternId} |->
            IF id = patternId
            THEN [record EXCEPT
                    !.total_exposure_seconds = @ + durationSec,
                    !.last_updated = time,
                    !.adverse_events = IF isSuccess THEN @ ELSE @ + 1,
                    !.resonance_score = IF isSuccess
                                        THEN RMin(One, RAdd(@, R(5, 100)))
                                        ELSE RMax(Zero, RSub(@, R(1, 10)))]
            ELSE registry[id]]

\* the registry after n more sessions of patternId, each of durationSec
RECURSIVE Registered(_, _, _, _, _)
Registered(n, registry, kernelState, durationSec, patternId) ==
    IF n = 0 THEN registry
    ELSE Registered(n - 1,
                    registerSessionComplete(registry, kernelState, durationSec,
                                            patternId, TimeOrigin),
                    kernelState, durationSec, patternId)

\* a new store, a store after nine calm sessions of awake of 46 s, and a
\* store after four sessions of awake of 30 s
StoredRegistries ==
    { NoRegistry,
      Registered(9, NoRegistry, getInitialState, 46, "awake"),
      Registered(4, NoRegistry, getInitialState, 30, "awake") }

\* the lengths of a session, in seconds, about the 45 s of a success
Durations == {30, 45, 46}

RegistryPatterns == {"awake", "box"}

RegistryDts == {R(4, 1)}

\* registerSessionComplete(durationSec, patternId, cycles): the new registry
\* is handed to the kernel and stored in the settings
RegisterSessionComplete ==
    \E durationSec \in Durations, patternId \in RegistryPatterns :
        /\ Counted
        /\ traumaRegistry' = registerSessionComplete(traumaRegistry, state, durationSec,
                                                     patternId, now)
        /\ safetyRegistry' = traumaRegistry'
        /\ UNCHANGED <<state, eventLog, delivered, dispatchCalls, subscribers, held,
                       thrown, hidden, lastTime, now, displayLastTime, bridge, call>>

\* the registry was rehydrated into the kernel (onRehydrateStorage) or was
\* handed to it by the last call, and a session of awake is running
InitRegistry ==
    /\ \E registry \in StoredRegistries :
          /\ traumaRegistry = registry
          /\ Holds([Started("awake") EXCEPT !.safetyRegistry = registry])
    /\ hidden \in BOOLEAN
    /\ steps = 0
    /\ Uncalled
    /\ lastTime = NoLoop
    /\ now = TimeOrigin
    /\ displayLastTime = NoLoop
    /\ bridge = NoBridge

NextRegistry ==
    \/ RegisterSessionComplete
    \/ Tick(RegistryDts)
    \/ VisibilityChange

SpecRegistry == InitRegistry /\ [][NextRegistry]_vars

(***************************************************************************)
(* Properties.  What one step appended to the log tells which command the  *)
(* step dispatched and which events the kernel raised while handling it.   *)
(***************************************************************************)
\* the step made a dispatch
Commanded == Len(eventLog') > Len(eventLog)

\* the entries the step appended: the command first, then the events it raised
Appended == SubSeq(eventLog', Len(eventLog) + 1, Len(eventLog'))

\* the type of the command the step dispatched
Command == eventLog'[Len(eventLog) + 1].type

\* the entries of `log` that are of type t, in order
OfType(log, t) == SelectSeq(log, LAMBDA e : e.type = t)

\* C1: once status is SAFETY_LOCK, every dispatched event other than a
\* LOAD_PROTOCOL or a HALT leaves it SAFETY_LOCK.
C1_LockHeldUntilLoadOrHalt ==
    [][(/\ state.status = "SAFETY_LOCK"
        /\ Commanded
        /\ Command \notin {"LOAD_PROTOCOL", "HALT"})
       => state'.status = "SAFETY_LOCK"]_vars

\* C6: START_SESSION in a status other than IDLE, and RESUME_SESSION in a
\* status other than PAUSED, change no field of the runtime state.
C6_StartResumeNoOps ==
    [][(/\ Commanded
        /\ \/ Command = "START_SESSION" /\ state.status # "IDLE"
           \/ Command = "RESUME_SESSION" /\ state.status # "PAUSED")
       => state' = state]_vars

\* clamp01(arousal * (1 - 0.8 * rhythm_alignment))
EntropyOf(belief) ==
    LET h == RMul(belief.arousal, RSub(One, RMul(R(8, 10), belief.rhythm_alignment)))
    IN  IF RLt(h, Zero) THEN Zero ELSE IF RLt(One, h) THEN One ELSE h

C7_LogAppendOnly ==
    /\ [](/\ eventLog[1] = [type |-> "BOOT"]
          /\ Len(eventLog) = dispatchCalls)
    /\ [][/\ Len(eventLog') >= Len(eventLog)
          /\ SubSeq(eventLog', 1, Len(eventLog)) = eventLog]_vars

\* C7 witness: the log holds an internally generated event and, after it, a
\* no-op command (a RESUME_SESSION dispatched while RUNNING)
C7_Witness ==
    /\ OfType(eventLog, "PHASE_TRANSITION") # <<>>
    /\ eventLog[Len(eventLog)].type = "RESUME_SESSION"
    /\ eventLog[Len(eventLog) - 1].type = "PHASE_TRANSITION"
    /\ state.status = "RUNNING"

\* the step dispatched a TICK to a RUNNING kernel with a pattern loaded
TickOfRunning ==
    /\ Commanded
    /\ Command = "TICK"
    /\ state.status = "RUNNING"
    /\ state.pattern # NoPattern

\* the events of type t the step appended
Raised(t) == OfType(Appended, t)

HaltPreventative ==
    [type |-> "SAFETY_INTERVENTION", riskLevel |-> R(9, 10), action |-> "HALT_PREVENTATIVE"]

CooldownForced ==
    [type |-> "SAFETY_INTERVENTION", riskLevel |-> R(8, 10), action |-> "COOLDOWN_FORCED"]

\* the active pattern has a registry record with resonance_score < 0.3
LowRecord ==
    /\ state.pattern \in DOMAIN safetyRegistry
    /\ RLt(safetyRegistry[state.pattern].resonance_score, R(3, 10))

\* state.entropy as the guard of the step's TICK reads it: the value the
\* PHASE_TRANSITION of this TICK recomputed (the belief does not change after
\* it), and otherwise the value the state held before the TICK
EntropyRead ==
    IF Raised("PHASE_TRANSITION") # <<>> THEN state'.entropy ELSE state.entropy

\* the conditions of Guard B as the guard of the step's TICK finds them
WatchdogCondition ==
    /\ BREATHING_PATTERNS[state.pattern].tier = 2
    /\ state'.cycleCount > 30
    /\ RLt(R(9, 10), state'.belief.arousal)

C4_FirstGuardWins ==
    [][TickOfRunning =>
        /\ Len(Raised("SAFETY_INTERVENTION")) <= 1
        /\ (LowRecord /\ RLt(R(8, 10), EntropyRead) /\ WatchdogCondition)
              => Raised("SAFETY_INTERVENTION") = <<HaltPreventative>>]_vars

\* C4 witness: HALT_PREVENTATIVE was raised in a state that meets Guard B too
C4_Witness ==
    /\ eventLog[Len(eventLog)] = HaltPreventative
    /\ BREATHING_PATTERNS[state.pattern].tier = 2
    /\ state.cycleCount > 30
    /\ RLt(R(9, 10), state.belief.arousal)
    /\ state.status = "SAFETY_LOCK"

Order == <<"inhale", "holdIn", "exhale", "holdOut">>

\* the phase n places after ph in the cyclic order
Later(ph, n) ==
    LET i == CHOOSE j \in 1..Len(Order) : Order[j] = ph
    IN  Order[((i - 1 + n) % Len(Order)) + 1]

\* the first phase after ph, in the cyclic order, that lasts longer than zero
FirstNonZeroAfter(ph, timings) ==
    LET hops == {n \in 1..Len(Order) : RLt(Zero, timings[Later(ph, n)])}
        first == CHOOSE n \in hops : \A m \in hops : n <= m
    IN  Later(ph, first)

\* the current phase of a loaded pattern lasts longer than zero
PhaseLasts(st) ==
    st.pattern # NoPattern =>
        RLt(Zero, BREATHING_PATTERNS[st.pattern].timings[st.phase])

\* C9: a phase whose configured duration is 0 is never the current phase of
\* a loaded catalog pattern, neither after a LOAD_PROTOCOL nor after a
\* PHASE_TRANSITION raised by a TICK: every such transition leaves the
\* current phase and enters the first phase of non-zero duration after it in
\* the order inhale, holdIn, exhale, holdOut.  For calm (4-0-6-0) inhale goes
\* to exhale without a CYCLE_COMPLETE and exhale goes to inhale with one.
C9_ZeroPhasesSkipped ==
    [][(/\ PhaseLasts(state)
        /\ PhaseLasts(state')
        /\ \A i \in DOMAIN delivered' : PhaseLasts(delivered'[i])
        /\ (Commanded /\ Command = "LOAD_PROTOCOL" /\ state'.pattern # state.pattern)
              => state'.phase = "inhale"
        /\ (Commanded /\ Command = "TICK") =>
              \A i \in DOMAIN Raised("PHASE_TRANSITION") :
                 LET pt == Raised("PHASE_TRANSITION")[i]
                     timings == BREATHING_PATTERNS[state.pattern].timings
                 IN  /\ state.pattern # NoPattern
                     /\ pt.from = state.phase
                     /\ pt.to = FirstNonZeroAfter(pt.from, timings)
                     /\ state'.phase = pt.to
                     /\ state.pattern = "calm" =>
                           \/ /\ pt.from = "inhale"
                              /\ pt.to = "exhale"
                              /\ Raised("CYCLE_COMPLETE") = <<>>
                           \/ /\ pt.from = "exhale"
                              /\ pt.to = "inhale"
                              /\ Len(Raised("CYCLE_COMPLETE")) = 1)]_vars

\* a calm session: a TICK of 4 s took inhale to exhale, the TICK of 6 s
\* after it took exhale back to inhale and completed the first cycle
C9_Witness ==
    /\ state.pattern = "calm"
    /\ state.phase = "inhale"
    /\ state.cycleCount = 1
    /\ OfType(eventLog, "TICK")
         = <<[type |-> "TICK", dt |-> R(4, 1)], [type |-> "TICK", dt |-> R(6, 1)]>>
    /\ OfType(eventLog, "PHASE_TRANSITION")
         = <<[type |-> "PHASE_TRANSITION", from |-> "inhale", to |-> "exhale"],
             [type |-> "PHASE_TRANSITION", from |-> "exhale", to |-> "inhale"]>>
    /\ eventLog[Len(eventLog)] = [type |-> "CYCLE_COMPLETE", count |-> 1]

\* C10: a TICK raises a CYCLE_COMPLETE exactly when the PHASE_TRANSITION it
\* raised goes into inhale; the CYCLE_COMPLETE is the only one of the TICK,
\* its count is the cycleCount before the TICK plus 1 and becomes the new
\* cycleCount.  A transition into holdIn, exhale or holdOut raises none and
\* leaves cycleCount as it was.
C10_CycleOnInhale ==
    [][(Commanded /\ Command = "TICK") =>
          LET pts == Raised("PHASE_TRANSITION")
              ccs == Raised("CYCLE_COMPLETE")
              intoInhale == \E i \in DOMAIN pts : pts[i].to = "inhale"
          IN  /\ (ccs # <<>>) <=> intoInhale
              /\ intoInhale =>
                    /\ ccs = <<[type |-> "CYCLE_COMPLETE", count |-> state.cycleCount + 1]>>
                    /\ state'.cycleCount = state.cycleCount + 1
              /\ ~intoInhale => state'.cycleCount = state.cycleCount]_vars

\* a box session of four TICKs of 4 s: three transitions without a cycle
\* event, then holdOut to inhale with the one CYCLE_COMPLETE, of count 1
C10_Witness ==
    /\ state.pattern = "box"
    /\ state.cycleCount = 1
    /\ SubSeq(eventLog, Len(eventLog) - 8, Len(eventLog))
         = <<[type |-> "TICK", dt |-> R(4, 1)],
             [type |-> "PHASE_TRANSITION", from |-> "inhale", to |-> "holdIn"],
             [type |-> "TICK", dt |-> R(4, 1)],
             [type |-> "PHASE_TRANSITION", from |-> "holdIn", to |-> "exhale"],
             [type |-> "TICK", dt |-> R(4, 1)],
             [type |-> "PHASE_TRANSITION", from |-> "exhale", to |-> "holdOut"],
             [type |-> "TICK", dt |-> R(4, 1)],
             [type |-> "PHASE_TRANSITION", from |-> "holdOut", to |-> "inhale"],
             [type |-> "CYCLE_COMPLETE", count |-> 1]>>
    /\ OfType(eventLog, "CYCLE_COMPLETE") = <<[type |-> "CYCLE_COMPLETE", count |-> 1]>>

\* the command the step dispatched
CommandEvent == eventLog'[Len(eventLog) + 1]

\* the step dispatched a LOAD_PROTOCOL of a pattern of the catalog
CatalogLoad ==
    /\ Commanded
    /\ Command = "LOAD_PROTOCOL"
    /\ CommandEvent.patternId \in CatalogIds

DurationConfigured(st) ==
    IF st.pattern = NoPattern
    THEN st.phaseDuration = Zero
    ELSE /\ st.phaseDuration = BREATHING_PATTERNS[st.pattern].timings[st.phase]
         /\ RLt(Zero, st.phaseDuration)

\* C12: in the state at the return of every dispatch, the nested ones
\* included, phaseDuration is the duration the loaded pattern configures for
\* the current phase; it is 0 only while no pattern is loaded.
C12_PhaseDurationConfigured ==
    /\ DurationConfigured(state)
    /\ \A i \in DOMAIN delivered : DurationConfigured(delivered[i])

\* a 4-7-8 session in its exhale of 8 s, reached through two transitions,
\* the second one observed by the subscribers
C12_Witness ==
    /\ state.pattern = "p478"
    /\ state.phase = "exhale"
    /\ state.phaseDuration = R(8, 1)
    /\ Len(OfType(eventLog, "PHASE_TRANSITION")) = 2
    /\ \E i \in DOMAIN delivered : delivered[i].phase = "exhale"

\* a LOAD_PROTOCOL of a catalog pattern is in the log
LoadSucceeded ==
    \E i \in DOMAIN eventLog :
       /\ eventLog[i].type = "LOAD_PROTOCOL"
       /\ eventLog[i].patternId \in CatalogIds

\* C13: the pattern reference is null exactly while no LOAD_PROTOCOL of a
\* catalog pattern has been dispatched, and status is IDLE all that while,
\* START_SESSION or not; once a pattern is loaded the reference is never
\* null again.
C13_PatternNullOnlyBeforeLoad ==
    /\ state.pattern = NoPattern <=> ~LoadSucceeded
    /\ state.pattern = NoPattern => state.status = "IDLE"
    /\ \A i \in DOMAIN delivered :
          delivered[i].pattern = NoPattern => delivered[i].status = "IDLE"

\* no pattern is loaded (a LOAD_PROTOCOL of an unknown id does not count),
\* START_SESSION was the last command, and status is IDLE
C13_Witness ==
    /\ state.pattern = NoPattern
    /\ state.status = "IDLE"
    /\ OfType(eventLog, "LOAD_PROTOCOL") # <<>>
    /\ OfType(eventLog, "TICK") # <<>>
    /\ eventLog[Len(eventLog)].type = "START_SESSION"

\* C14: a LOAD_PROTOCOL of a catalog pattern, in any status, sets pattern to
\* that entry, phase to inhale, phaseDuration to the pattern's inhale
\* duration, phaseElapsed, cycleCount and sessionDuration to 0, status to
\* IDLE and belief.rhythm_alignment to 0, and leaves belief.arousal and
\* belief.attention as they were.
C14_LoadResets ==
    [][CatalogLoad =>
         /\ state'.pattern = CommandEvent.patternId
         /\ state'.phase = "inhale"
         /\ state'.phaseDuration = BREATHING_PATTERNS[CommandEvent.patternId].timings.inhale
         /\ state'.phaseElapsed = Zero
         /\ state'.cycleCount = 0
         /\ state'.sessionDuration = Zero
         /\ state'.status = "IDLE"
         /\ state'.belief.rhythm_alignment = Zero
         /\ state'.belief.arousal = state.belief.arousal
         /\ state'.belief.attention = state.belief.attention]_vars

\* a long session that the guard had locked was replaced by another pattern:
\* everything is reset but arousal, which the load carried over
C14_Witness ==
    /\ Len(eventLog) > 2
    /\ eventLog[Len(eventLog)].type = "LOAD_PROTOCOL"
    /\ eventLog[Len(eventLog) - 1].type = "SAFETY_INTERVENTION"
    /\ eventLog[Len(eventLog)].patternId # eventLog[2].patternId
    /\ state.pattern = eventLog[Len(eventLog)].patternId
    /\ state.status = "IDLE"
    /\ state.cycleCount = 0
    /\ RLt(Zero, state.belief.arousal)
    /\ state.belief.rhythm_alignment = Zero

\* the step dispatched a LOAD_PROTOCOL of an id the catalog does not have
UnknownLoad ==
    /\ Commanded
    /\ Command = "LOAD_PROTOCOL"
    /\ CommandEvent.patternId \notin CatalogIds

Interrupted == Commanded /\ Command = "USER_INTERRUPTION"

\* C16: a USER_INTERRUPTION dispatched while RUNNING sets status PAUSED and
\* applies the penalty once: attention becomes 0.8 times and rhythm_alignment
\* 0.5 times its value; arousal, phase, phaseElapsed, cycleCount and
\* sessionDuration are unchanged.
C16_PausePenaltyOnce ==
    [][(Interrupted /\ state.status = "RUNNING") =>
         /\ state'.status = "PAUSED"
         /\ state'.belief.attention = RMul(R(4, 5), state.belief.attention)
         /\ state'.belief.rhythm_alignment = RMul(R(1, 2), state.belief.rhythm_alignment)
         /\ state'.belief.arousal = state.belief.arousal
         /\ state'.phase = state.phase
         /\ state'.phaseElapsed = state.phaseElapsed
         /\ state'.cycleCount = state.cycleCount
         /\ state'.sessionDuration = state.sessionDuration
         /\ Appended = <<CommandEvent>>]_vars

\* a session paused in its second cycle, part of a phase elapsed: attention
\* had reached 1 and is 0.8, rhythm_alignment had reached 1 and is 0.5
C16_Witness ==
    /\ eventLog[Len(eventLog)].type = "USER_INTERRUPTION"
    /\ state.status = "PAUSED"
    /\ state.cycleCount = 1
    /\ RLt(Zero, state.phaseElapsed)
    /\ state.belief.attention = R(8, 10)
    /\ state.belief.rhythm_alignment = R(5, 10)

\* C17: a USER_INTERRUPTION dispatched in a status other than RUNNING (PAUSED,
\* IDLE, SAFETY_LOCK) changes nothing: status stays, no penalty is applied,
\* however many times it is repeated; the event is logged and nothing else.
C17_InterruptionNoOp ==
    [][(Interrupted /\ state.status # "RUNNING") =>
         /\ state'.status = state.status
         /\ state'.belief = state.belief
         /\ state' = state
         /\ Appended = <<CommandEvent>>]_vars

\* a session interrupted twice in a row: PAUSED, attention and
\* rhythm_alignment penalised once
C17_Witness ==
    /\ Len(eventLog) > 3
    /\ eventLog[Len(eventLog)].type = "USER_INTERRUPTION"
    /\ eventLog[Len(eventLog) - 1].type = "USER_INTERRUPTION"
    /\ eventLog[Len(eventLog) - 2].type = "START_SESSION"
    /\ state.status = "PAUSED"
    /\ state.belief.attention = R(4, 10)

\* the step dispatched a HALT
Halted == Commanded /\ Command = "HALT"

\* C18: a HALT dispatched in any status sets status to IDLE and changes no
\* other field, the belief vector among them; dispatched when status is IDLE
\* already it leaves the whole state as it was.
C18_HaltToIdle ==
    [][Halted =>
         /\ state'.status = "IDLE"
         /\ state'.belief = state.belief
         /\ state' = [state EXCEPT !.status = "IDLE"]
         /\ state.status = "IDLE" => state' = state
         /\ Appended = <<CommandEvent>>]_vars

\* a started session halted twice in a row
C18_Witness ==
    /\ Len(eventLog) > 3
    /\ eventLog[Len(eventLog)].type = "HALT"
    /\ eventLog[Len(eventLog) - 1].type = "HALT"
    /\ eventLog[Len(eventLog) - 2].type = "START_SESSION"
    /\ state.status = "IDLE"
    /\ state.pattern = "box"
    /\ state.belief = getInitialState.belief

\* the step dispatched a TICK to a kernel that is not RUNNING or has no pattern
TickOfIdle ==
    /\ Commanded
    /\ Command = "TICK"
    /\ (state.status # "RUNNING" \/ state.pattern = NoPattern)

\* C19: a TICK dispatched while status is not RUNNING, or while no pattern is
\* loaded, changes only belief and entropy: status, pattern, phase,
\* phaseElapsed, phaseDuration, cycleCount and sessionDuration stay, and the
\* TICK is the only event appended (no PHASE_TRANSITION, CYCLE_COMPLETE or
\* SAFETY_INTERVENTION: the Safety Guard is not evaluated).
C19_IdleTickOnlyDecays ==
    [][TickOfIdle =>
         /\ state' = [state EXCEPT !.belief = state'.belief, !.entropy = state'.entropy]
         /\ state'.belief = update(state.belief,
                                   [delta_time |-> CommandEvent.dt,
                                    visibilty_state |-> "visible",
                                    user_interaction |-> "undefined"],
                                   FALSE)
         /\ Appended = <<CommandEvent>>
         /\ Len(delivered') = 1]_vars

\* a locked session was ticked: the condition of Guard A holds of the state
\* after the TICK as it did before, and no second intervention was raised
C19_Witness ==
    /\ Len(eventLog) > 2
    /\ eventLog[Len(eventLog)].type = "TICK"
    /\ eventLog[Len(eventLog) - 1] = HaltPreventative
    /\ state.status = "SAFETY_LOCK"
    /\ GuardA(state, safetyRegistry)

\* x lies in [0, 1]
InUnit(x) == RLe(Zero, x) /\ RLe(x, One)

\* the belief components and the entropy of st lie in [0, 1]
Bounded(st) ==
    /\ InUnit(st.belief.arousal)
    /\ InUnit(st.belief.attention)
    /\ InUnit(st.belief.rhythm_alignment)
    /\ InUnit(st.entropy)

\* C20: in every reachable state, and in every snapshot delivered to the
\* subscribers, belief.arousal, belief.attention, belief.rhythm_alignment and
\* entropy lie in [0, 1] (the TICKs have dt >= 0).
C20_BeliefBounded ==
    /\ Bounded(state)
    /\ \A i \in DOMAIN delivered : Bounded(delivered[i])

\* a session ticked while hidden and then paused: arousal was clamped at 1,
\* attention at 0, and the penalty was applied to them
C20_Witness ==
    /\ eventLog[Len(eventLog)].type = "USER_INTERRUPTION"
    /\ state.status = "PAUSED"
    /\ state.belief.arousal = One
    /\ state.belief.attention = Zero
    /\ state.entropy = One

\* x brought into [0, 1]
Clamp01(x) == IF RLt(x, Zero) THEN Zero ELSE IF RLt(One, x) THEN One ELSE x

\* the reference rule: each component moves at its rate per second (negative
\* when it drops) and stays in [0, 1]
Moved(x, rate, dt) == Clamp01(RAdd(x, RMul(rate, dt)))

ReferenceRates(observation, isRunning) ==
    IF ~isRunning
    THEN Belief(R(-10, 100), R(-20, 100), R(-10, 100))
    ELSE IF \/ observation.visibilty_state = "hidden"
            \/ observation.user_interaction = "pause"
    THEN Belief(R(30, 100), R(-50, 100), R(-40, 100))
    ELSE Belief(R(-5, 100), R(10, 100), R(20, 100))

Reference(belief, observation, isRunning) ==
    LET rates == ReferenceRates(observation, isRunning)
        dt == observation.delta_time
    IN  Belief(Moved(belief.arousal, rates.arousal, dt),
               Moved(belief.attention, rates.attention, dt),
               Moved(belief.rhythm_alignment, rates.rhythm_alignment, dt))

\* C21: for every belief in [0,1]^3 and every dt >= 0, update returns the
\* belief of the reference rule: not running, arousal, attention and
\* rhythm_alignment drop by 0.10, 0.20 and 0.10 per second, floored at 0;
\* running and interrupted (host hidden, or the pause tag), arousal rises by
\* 0.30 per second capped at 1 while attention and rhythm_alignment drop by
\* 0.50 and 0.40; running and uninterrupted, arousal drops by 0.05 while
\* attention and rhythm_alignment rise by 0.10 and 0.20 capped at 1.
C21_UpdateIsReference ==
    result.fn = "update" =>
        result.value = Reference(args.belief, args.observation, args.isRunning)

\* a running, hidden second: arousal 0.9 is capped at 1, attention 0.3 is
\* floored at 0, rhythm_alignment 0.9 drops to 0.5
C21_Witness ==
    /\ result.fn = "update"
    /\ args.isRunning
    /\ args.observation.visibilty_state = "hidden"
    /\ args.observation.user_interaction = "undefined"
    /\ args.observation.delta_time = One
    /\ args.belief = Belief(R(9, 10), R(3, 10), R(9, 10))
    /\ result.value = Belief(One, Zero, R(1, 2))

C25_TickFanOutBounded ==
    [][(Commanded /\ Command = "TICK") =>
         /\ Len(Raised("PHASE_TRANSITION")) <= 1
         /\ Len(Raised("CYCLE_COMPLETE")) <= 1
         /\ Len(Raised("SAFETY_INTERVENTION")) <= 1
         /\ Len(Appended) = 1 + Len(Raised("PHASE_TRANSITION"))
                              + Len(Raised("CYCLE_COMPLETE"))
                              + Len(Raised("SAFETY_INTERVENTION"))
         /\ dispatchCalls' - dispatchCalls = Len(Appended)
         /\ Len(delivered') = Len(Appended)
         /\ Len(Appended) <= 4]_vars

\* a TICK of 11 s, longer than the whole cycle of the pattern (6 s), raised
\* one PHASE_TRANSITION, one CYCLE_COMPLETE and one SAFETY_INTERVENTION
C25_Witness ==
    /\ Len(eventLog) > 4
    /\ state.pattern = "awake"
    /\ eventLog[Len(eventLog) - 3] = [type |-> "TICK", dt |-> R(11, 1)]
    /\ eventLog[Len(eventLog) - 2].type = "PHASE_TRANSITION"
    /\ eventLog[Len(eventLog) - 1].type = "CYCLE_COMPLETE"
    /\ eventLog[Len(eventLog)].type = "SAFETY_INTERVENTION"
    /\ Len(delivered) = 4

\* C26: no dispatch changes the safety registry the kernel holds, whatever
\* the event and whether or not the Safety Guard read the registry; the
\* registry changes only in a setSafetyRegistry step, which replaces the
\* whole map and changes nothing else.
C26_RegistryReadOnly ==
    [][/\ Commanded => safetyRegistry' = safetyRegistry
       /\ safetyRegistry' # safetyRegistry =>
             /\ ~Commanded
             /\ safetyRegistry' \in RegistryInputs
             /\ state' = state
             /\ dispatchCalls' = dispatchCalls]_vars

\* the guard found the low record of the pattern and raised the
\* intervention: the record is in the registry as it was handed in
C26_Witness ==
    /\ eventLog[Len(eventLog)] = HaltPreventative
    /\ state.status = "SAFETY_LOCK"
    /\ safetyRegistry = [box |-> Record(R(1, 10))]

\* C30: the entropy that Guard A compares against 0.8 in a TICK is the entropy
\* of the belief that the same TICK has updated, whether or not the TICK
\* raised a PHASE_TRANSITION: a RUNNING TICK raises HALT_PREVENTATIVE exactly
\* when the pattern has a low record and
\* clamp01(arousal * (1 - 0.8 * rhythm_alignment)) of the updated belief is
\* above 0.8.
C30_GuardReadsCurrentEntropy ==
    [][TickOfRunning =>
         /\ EntropyRead = EntropyOf(state'.belief)
         /\ Raised("SAFETY_INTERVENTION") = <<HaltPreventative>>
              <=> (LowRecord /\ RLt(R(8, 10), EntropyOf(state'.belief)))]_vars

\* the calls of callbacks the step made, in order: what it added to `held`
Calls == SubSeq(held', Len(held) + 1, Len(held'))

CallsOf(fn) == SelectSeq(Calls, LAMBDA h : h.by = fn)

\* fn is subscribed before the step, after the step
Subscribed(fn) == \E i \in DOMAIN subscribers : subscribers[i] = fn

SubscribedAfter(fn) == \E i \in DOMAIN subscribers' : subscribers'[i] = fn

\* the step is a call of subscribe(fn): no dispatch, one call of fn with the
\* state object
Replayed(fn) ==
    /\ ~Commanded
    /\ Len(Calls) = 1
    /\ Calls[1].by = fn
    /\ Calls[1].live

\* C23: subscribe(fn) calls fn once with the current state before it returns
\* and leaves fn subscribed; a step that dispatches calls every subscribed
\* callback once for every dispatch it made, external or internal, and calls
\* no callback that is not subscribed (one that was never subscribed or whose
\* unsubscribe function was called), the last call being made with the state
\* the step leaves; only subscribe and unsubscribe change who is subscribed,
\* and unsubscribe calls nobody.
C23_SubscribeContract ==
    [][/\ Commanded =>
            /\ subscribers' = subscribers
            /\ \A fn \in ObserverFns :
                   Len(CallsOf(fn)) = IF Subscribed(fn) THEN Len(Appended) ELSE 0
            /\ \A i \in DOMAIN Calls : ~Calls[i].live
            /\ Calls # <<>> => Calls[Len(Calls)].given = state'
       /\ ~Commanded =>
            \/ /\ Calls = <<>>
               /\ \A fn \in ObserverFns : SubscribedAfter(fn) => Subscribed(fn)
            \/ \E fn \in ObserverFns :
                  /\ Replayed(fn)
                  /\ Calls[1].given = state
                  /\ state' = state
                  /\ SubscribedAfter(fn)
                  /\ \A other \in ObserverFns \ {fn} :
                         SubscribedAfter(other) <=> Subscribed(other)]_vars

\* observer subscribed, was called with the state object, was notified of a
\* TICK and of the PHASE_TRANSITION it raised, was unsubscribed, and a
\* further TICK was dispatched without a call of it
C23_Witness ==
    /\ ~Subscribed("observer")
    /\ \E i \in DOMAIN held : held[i].by = "observer" /\ held[i].live
    /\ Len(SelectSeq(held, LAMBDA h : h.by = "observer" /\ ~h.live)) = 2
    /\ \E i \in DOMAIN held : held[i].by = "observer" /\ held[i].given.phase = "exhale"
    /\ Len(OfType(eventLog, "TICK")) = 2
    /\ Len(OfType(eventLog, "PHASE_TRANSITION")) = 1

\* what a callback reads now through the object it was handed
Seen(h) == IF h.live THEN state ELSE [h.given EXCEPT !.belief = h.belief]

\* C24: every object that was handed to a callback, by subscribe or by a
\* notification, still reads as it did when it was handed over: no field of
\* it and no component of its belief was changed by a later dispatch.
C24_SnapshotsImmutable ==
    \A i \in DOMAIN held : Seen(held[i]) = held[i].given

\* C29: when a callback dispatched HALT or USER_INTERRUPTION from inside
\* the PHASE_TRANSITION or CYCLE_COMPLETE notification of a TICK, the TICK
\* raises no SAFETY_INTERVENTION after that command, and it returns with the
\* status the command set: IDLE after a HALT, and never SAFETY_LOCK.
C29_GuardOnlyWhileRunning ==
    [][(Commanded /\ Command = "TICK") =>
          \A i \in DOMAIN Appended :
              Appended[i].type \in {"HALT", "USER_INTERRUPTION"} =>
                  /\ \A j \in DOMAIN Appended :
                         j > i => Appended[j].type # "SAFETY_INTERVENTION"
                  /\ state'.status # "SAFETY_LOCK"
                  /\ (Appended[i].type = "HALT"
                        /\ \A j \in DOMAIN Appended :
                               j > i => Appended[j].type # "USER_INTERRUPTION")
                     => state'.status = "IDLE"]_vars

\* C28: with a callback that throws subscribed, every dispatch a step makes
\* still calls every subscribed callback once, a PHASE_TRANSITION into
\* inhale is still followed by its CYCLE_COMPLETE, and the TICK still ends
\* with the entropy of the belief it left.
C28_ObserversIndependent ==
    [][Commanded =>
          /\ \A fn \in ThrowingFns :
                 Subscribed(fn) => Len(CallsOf(fn)) = Len(Appended)
          /\ \A i \in DOMAIN Appended :
                 (Appended[i].type = "PHASE_TRANSITION" /\ Appended[i].to = "inhale")
                 => /\ i < Len(Appended)
                    /\ Appended[i + 1].type = "CYCLE_COMPLETE"
          /\ Command = "TICK" => state'.entropy = calculateEntropy(state'.belief)]_vars

\* the milliseconds of host clock the step took
Gap == now' - now

\* the frame measures more than 0 and less than 1 second
Accepted == 0 < Gap /\ Gap < 1000

\* C27: a step of the driver dispatches a TICK only as a frame of a running
\* loop whose gap, the host time since the reading before it, is more than
\* 0 and less than 1 second; it is then the one TICK of the step and its dt
\* is that gap alone, in seconds, whatever gaps were measured before.  A
\* frame with any other gap dispatches nothing and leaves the kernel as it
\* was.
C27_HeartbeatFilter ==
    [][/\ OfType(Appended, "TICK") =
              IF state.status = "RUNNING" /\ Accepted
              THEN <<[type |-> "TICK", dt |-> R(Gap, 1000)]>>
              ELSE <<>>
       /\ (state.status = "RUNNING" /\ Accepted) => Command = "TICK"
       /\ (state.status = "RUNNING" /\ Gap # 0 /\ ~Accepted) => UNCHANGED kernel]_vars

\* a frame 2.5 s after the loop started was dropped, and the frame 16 ms
\* after it made the only TICK, of 16 ms
C27_Witness ==
    /\ now = 2516
    /\ lastTime = now
    /\ OfType(eventLog, "TICK") = <<[type |-> "TICK", dt |-> R(16, 1000)]>>
    /\ state.sessionDuration = R(16, 1000)

\* the fields of a state that HALT and SAFETY_INTERVENTION are to leave alone
Session(st) ==
    [ pattern         |-> st.pattern,
      phase           |-> st.phase,
      phaseElapsed    |-> st.phaseElapsed,
      phaseDuration   |-> st.phaseDuration,
      cycleCount      |-> st.cycleCount,
      sessionDuration |-> st.sessionDuration,
      belief          |-> st.belief ]

\* the state in which the TICK of the step dispatched its SAFETY_INTERVENTION:
\* the state its last transition left or, without one, the state after the
\* belief update and the physics step of the TICK
BeforeIntervention ==
    IF Len(delivered') >= 3
    THEN delivered'[Len(delivered') - 2]
    ELSE [state EXCEPT
            !.phaseElapsed = RAdd(@, CommandEvent.dt),
            !.sessionDuration = RAdd(@, CommandEvent.dt),
            !.belief = update(state.belief,
                              [delta_time |-> CommandEvent.dt,
                               visibilty_state |-> IF hidden THEN "hidden" ELSE "visible",
                               user_interaction |-> "undefined"],
                              TRUE)]

\* C34: a HALT changes the status and nothing else of pattern, phase,
\* phaseElapsed, phaseDuration, cycleCount, sessionDuration and belief; a
\* SAFETY_INTERVENTION leaves those fields as they were when it was raised
\* and sets SAFETY_LOCK, and the TICK that raised it returns them so; a
\* START_SESSION leaves them too, so that a session started again after a
\* HALT goes on in the same phase with the same phaseElapsed and cycleCount.
C34_HaltAndLockKeepSession ==
    [][/\ Halted =>
            /\ Session(state') = Session(state)
            /\ state'.status = "IDLE"
       /\ (TickOfRunning /\ Raised("SAFETY_INTERVENTION") # <<>>) =>
            /\ Session(delivered'[Len(delivered') - 1]) = Session(BeforeIntervention)
            /\ delivered'[Len(delivered') - 1].status = "SAFETY_LOCK"
            /\ Session(state') = Session(BeforeIntervention)
       /\ (Commanded /\ Command = "START_SESSION") =>
            /\ Session(state') = Session(state)
            /\ state.pattern # NoPattern => state'.status = "RUNNING"]_vars

\* a session in its 31st cycle or later was halted 1 s into a phase and
\* started again without a LOAD_PROTOCOL: it is RUNNING 1 s into that phase
\* with the cycles it had counted
C34_Witness ==
    /\ Len(eventLog) > 4
    /\ eventLog[Len(eventLog)].type = "START_SESSION"
    /\ eventLog[Len(eventLog) - 1].type = "HALT"
    /\ eventLog[Len(eventLog) - 2].type = "TICK"
    /\ state.status = "RUNNING"
    /\ state.phaseElapsed = R(1, 1)
    /\ state.cycleCount >= LongCycles

\* the step dispatched a TICK while the host document was hidden
HiddenTick ==
    /\ Commanded
    /\ Command = "TICK"
    /\ hidden

\* no SAFETY_INTERVENTION was raised since the kernel was constructed
NoIntervention == OfType(eventLog, "SAFETY_INTERVENTION") = <<>>

\* arousal and entropy are at most what a fresh kernel starts with
Quiet(st) ==
    /\ RLe(st.belief.arousal, getInitialState.belief.arousal)
    /\ RLe(st.entropy, getInitialState.entropy)

\* C35: a step raises belief.arousal only if it dispatches a TICK to a
\* RUNNING kernel while the host document is hidden; every other step leaves
\* arousal equal or lower.  So a step that is not such a TICK, taken with
\* arousal and entropy no higher than in a fresh kernel, leaves them so and
\* raises no SAFETY_INTERVENTION, and a run in which the document is never
\* hidden never raises one.
C35_ArousalRisesOnlyHidden ==
    /\ [][/\ RLt(state.belief.arousal, state'.belief.arousal)
               => (HiddenTick /\ state.status = "RUNNING")
          /\ (Quiet(state) /\ ~HiddenTick)
               => (Quiet(state') /\ Raised("SAFETY_INTERVENTION") = <<>>)]_vars
    /\ (<>hidden \/ []NoIntervention)

\* a session was ticked while hidden, paused, and ticked again while hidden:
\* the TICK of the paused session, which carries the pause tag, lowered the
\* arousal the first TICK had raised
C35_Witness ==
    /\ Len(eventLog) > 3
    /\ eventLog[Len(eventLog)].type = "TICK"
    /\ eventLog[Len(eventLog) - 1].type = "USER_INTERRUPTION"
    /\ eventLog[Len(eventLog) - 2].type = "TICK"
    /\ state.status = "PAUSED"
    /\ hidden
    /\ state.belief.arousal = R(2, 10)

\* the time of the current phase is within the phase
WithinPhase(st) ==
    /\ RLe(Zero, st.phaseElapsed)
    /\ RLt(st.phaseElapsed, st.phaseDuration)

\* C37: with a pattern loaded, phaseElapsed is at least 0 and less than
\* phaseDuration whenever no dispatch is in progress.  A TICK of a RUNNING
\* session raises a PHASE_TRANSITION exactly if the time of the phase plus
\* its dt reaches phaseDuration, and then leaves phaseElapsed at 0;
\* otherwise it adds its dt.  No event but a TICK of a RUNNING session and a
\* LOAD_PROTOCOL changes phaseElapsed.
C37_PhaseElapsedWithinPhase ==
    /\ [](state.pattern # NoPattern => WithinPhase(state))
    /\ [][/\ TickOfRunning =>
               LET reached == RLe(state.phaseDuration,
                                  RAdd(state.phaseElapsed, CommandEvent.dt))
               IN  /\ Raised("PHASE_TRANSITION") # <<>> <=> reached
                   /\ reached => state'.phaseElapsed = Zero
                   /\ ~reached => state'.phaseElapsed =
                                      RAdd(state.phaseElapsed, CommandEvent.dt)
          /\ (Commanded /\ ~TickOfRunning /\ ~CatalogLoad)
               => state'.phaseElapsed = state.phaseElapsed]_vars

\* a TICK of 6 s ended the 4 s inhale of box: holdIn starts at 0, the 2 s
\* beyond the inhale are not counted in it
C37_Witness ==
    /\ state.pattern = "box"
    /\ state.phase = "holdIn"
    /\ state.phaseElapsed = Zero
    /\ state.sessionDuration = R(6, 1)
    /\ eventLog[Len(eventLog)].type = "TICK"

\* the status a log leaves, by the transition table of the commands
RECURSIVE StatusAfter(_)
StatusAfter(log) ==
    IF log = <<>> THEN "IDLE"
    ELSE LET before == SubSeq(log, 1, Len(log) - 1)
             e == log[Len(log)]
             was == StatusAfter(before)
             loaded == \E i \in DOMAIN before :
                          /\ before[i].type = "LOAD_PROTOCOL"
                          /\ before[i].patternId \in CatalogIds
         IN  CASE e.type = "LOAD_PROTOCOL" ->
                     IF e.patternId \in CatalogIds THEN "IDLE" ELSE was
               [] e.type = "START_SESSION" -> IF loaded THEN "RUNNING" ELSE was
               [] e.type = "USER_INTERRUPTION" -> IF was = "RUNNING" THEN "PAUSED" ELSE was
               [] e.type = "RESUME_SESSION" -> IF was = "PAUSED" THEN "RUNNING" ELSE was
               [] e.type = "HALT" -> "IDLE"
               [] e.type = "SAFETY_INTERVENTION" -> "SAFETY_LOCK"
               [] OTHER -> was

\* the sum of dt over the TICKs of a log that were dispatched while the
\* status was RUNNING, counted from the last LOAD_PROTOCOL of a catalog id
RECURSIVE RunningTime(_)
RunningTime(log) ==
    IF log = <<>> THEN Zero
    ELSE LET before == SubSeq(log, 1, Len(log) - 1)
             e == log[Len(log)]
         IN  IF e.type = "LOAD_PROTOCOL" /\ e.patternId \in CatalogIds THEN Zero
             ELSE IF e.type = "TICK" /\ StatusAfter(before) = "RUNNING"
             THEN RAdd(RunningTime(before), e.dt)
             ELSE RunningTime(before)

\* C38: sessionDuration is the sum of dt over the TICKs dispatched while
\* RUNNING since the last LOAD_PROTOCOL of a catalog id.  A step lowers it
\* only by such a LOAD_PROTOCOL; a TICK of a RUNNING session adds its dt; a
\* TICK in any other status, HALT, USER_INTERRUPTION, RESUME_SESSION and
\* START_SESSION leave it as it is.
C38_SessionDurationIsRunningTime ==
    /\ [](state.sessionDuration = RunningTime(eventLog))
    /\ [][/\ RLt(state'.sessionDuration, state.sessionDuration) => CatalogLoad
          /\ TickOfRunning =>
                state'.sessionDuration = RAdd(state.sessionDuration, CommandEvent.dt)
          /\ (Commanded /\ ~TickOfRunning /\ ~CatalogLoad) =>
                state'.sessionDuration = state.sessionDuration]_vars

\* a TICK of 4 s ran and locked the session, a second TICK was dispatched
\* to the locked session: the session lasted 4 s
C38_Witness ==
    /\ Len(OfType(eventLog, "TICK")) = 2
    /\ eventLog[Len(eventLog)].type = "TICK"
    /\ eventLog[Len(eventLog) - 1].type = "SAFETY_INTERVENTION"
    /\ state.status = "SAFETY_LOCK"
    /\ state.sessionDuration = R(4, 1)

\* the statuses the kernel assigns
AssignedStatuses == {"IDLE", "RUNNING", "PAUSED", "SAFETY_LOCK"}

\* C40: the status is IDLE, RUNNING, PAUSED or SAFETY_LOCK in every state
\* the kernel reaches and in every snapshot it hands out; HALTED, which the
\* type of the status declares, is never assigned.
C40_HaltedUnreachable ==
    /\ state.status \in AssignedStatuses
    /\ \A i \in DOMAIN delivered : delivered[i].status \in AssignedStatuses

\* a session that was locked by the guard was halted: all of LOAD_PROTOCOL,
\* START_SESSION, TICK, SAFETY_INTERVENTION and HALT were reduced
C40_Witness ==
    /\ OfType(eventLog, "SAFETY_INTERVENTION") # <<>>
    /\ eventLog[Len(eventLog)].type = "HALT"
    /\ state.status = "IDLE"

\* the last element of a non-empty sequence
Last(seq) == seq[Len(seq)]

\* C39: between two points at which no dispatch is in progress, a callback
\* that is subscribed at both is notified as many times as entries were
\* appended to the event log, no-op commands and the events the kernel or a
\* callback raised inside the dispatch included, and the notification it got
\* last carries the field values of the state the dispatch returned with.
\* (The call subscribe makes of a callback that subscribes again is a replay,
\* not a notification.)
C39_NotificationsMatchLog ==
    [][\A fn \in ObserverFns :
          (Subscribed(fn) /\ SubscribedAfter(fn) /\ ~Replayed(fn)) =>
              /\ Len(CallsOf(fn)) = Len(eventLog') - Len(eventLog)
              /\ Commanded =>
                    /\ Len(delivered') = Len(eventLog') - Len(eventLog)
                    /\ Last(CallsOf(fn)).given = state'
                    /\ Last(delivered') = state']_vars

\* observer and halter were subscribed before the first TICK; the TICK
\* ended the inhale, halter dispatched HALT from inside the notification of
\* the PHASE_TRANSITION, and observer was notified of every entry of the log
\* since it subscribed
C39_Witness ==
    /\ Subscribed("observer")
    /\ Subscribed("halter")
    /\ OfType(eventLog, "HALT") # <<>>
    /\ OfType(eventLog, "PHASE_TRANSITION") # <<>>
    /\ eventLog[Len(eventLog)].type = "START_SESSION"
    /\ Len(SelectSeq(held, LAMBDA h : h.by = "observer" /\ ~h.live)) = Len(eventLog) - 3
    /\ Len(SelectSeq(held, LAMBDA h : h.by = "observer" /\ h.live)) = 1

RECURSIVE TickTime(_)
TickTime(log) ==
    IF log = <<>> THEN Zero
    ELSE IF Head(log).type = "TICK" THEN RAdd(Head(log).dt, TickTime(Tail(log)))
    ELSE TickTime(Tail(log))

\* C31: with the hook mounted by App and by ActiveSessionDisplay, a step of
\* the application hands the kernel at most one TICK, and the dt of all the
\* TICKs, and so sessionDuration, add up to no more than the time the host
\* clock has counted since the session was started.
C31_OneTickPerFrame ==
    /\ [][Len(OfType(Appended, "TICK")) <= 1]_vars
    /\ [](/\ RLe(TickTime(eventLog), R(now - TimeOrigin, 1000))
          /\ RLe(state.sessionDuration, R(now - TimeOrigin, 1000)))

\* C32: every call of the hook's subscriber with a state in SAFETY_LOCK
\* warns, calls stopSession and does nothing else: it writes no ref and
\* calls neither syncState nor the haptic or the audio driver.
C32_LockoutOnlyStops ==
    \A i \in DOMAIN bridge.heard :
        bridge.heard[i].state.status = "SAFETY_LOCK" =>
            bridge.heard[i].did = <<"console.warn", "stopSession">>

\* a TICK ended a phase, of which the subscriber was told and for which it
\* fired its drivers, and then locked the session, of which it was told too
C32_Witness ==
    /\ Len(bridge.heard) >= 2
    /\ bridge.heard[1].state.status = "RUNNING"
    /\ \E j \in DOMAIN bridge.heard[1].did : bridge.heard[1].did[j] = "playCue"
    /\ Last(bridge.heard).state.status = "SAFETY_LOCK"
    /\ Last(bridge.heard).did = <<"console.warn", "stopSession">>
    /\ state.status = "SAFETY_LOCK"

\* the fields of the record of `id` in `registry`, those of a new record if
\* it has none
ScoreIn(registry, id) ==
    IF id \in DOMAIN registry THEN registry[id].resonance_score ELSE R(1, 2)

AdverseIn(registry, id) ==
    IF id \in DOMAIN registry THEN registry[id].adverse_events ELSE 0

ExposureIn(registry, id) ==
    IF id \in DOMAIN registry THEN registry[id].total_exposure_seconds ELSE 0

\* x and y are the same number
Same(x, y) == RLe(x, y) /\ RLe(y, x)

\* C33: every resonance_score of the stored registry is in [0,1]; a call of
\* registerSessionComplete leaves the kernel with the registry it stored,
\* and in it the record of the session's pattern, 0.5 when new, is up by
\* 0.05 and at most 1 after more than 45 s ending with entropy < 0.5, and
\* otherwise down by 0.1 and at least 0 with one more adverse event; the
\* other records are as they were.
C33_ResonanceInUnitInterval ==
    /\ [](\A id \in DOMAIN traumaRegistry :
             /\ RLe(Zero, traumaRegistry[id].resonance_score)
             /\ RLe(traumaRegistry[id].resonance_score, One))
    /\ [][traumaRegistry' # traumaRegistry =>
            /\ safetyRegistry' = traumaRegistry'
            /\ DOMAIN traumaRegistry \subseteq DOMAIN traumaRegistry'
            /\ \A id \in DOMAIN traumaRegistry' :
                  LET durationSec == ExposureIn(traumaRegistry', id)
                                        - ExposureIn(traumaRegistry, id)
                  IN  IF durationSec = 0
                      THEN /\ id \in DOMAIN traumaRegistry
                           /\ traumaRegistry'[id] = traumaRegistry[id]
                      ELSE IF durationSec > 45 /\ RLt(state.entropy, R(1, 2))
                      THEN /\ Same(ScoreIn(traumaRegistry', id),
                                   RMin(One, RAdd(ScoreIn(traumaRegistry, id), R(5, 100))))
                           /\ AdverseIn(traumaRegistry', id) = AdverseIn(traumaRegistry, id)
                      ELSE /\ Same(ScoreIn(traumaRegistry', id),
                                   RMax(Zero, RSub(ScoreIn(traumaRegistry, id), R(1, 10))))
                           /\ AdverseIn(traumaRegistry', id)
                                 = AdverseIn(traumaRegistry, id) + 1]_vars

\* awake is at the cap after eleven calm sessions of 46 s, box went down
\* from 0.5 after a session that ended agitated or short, and the kernel
\* has the stored registry
C33_Witness ==
    /\ DOMAIN traumaRegistry = {"awake", "box"}
    /\ Same(traumaRegistry["awake"].resonance_score, One)
    /\ traumaRegistry["awake"].total_exposure_seconds = 11 * 46
    /\ Same(traumaRegistry["box"].resonance_score, R(4, 10))
    /\ traumaRegistry["box"].adverse_events = 1
    /\ safetyRegistry = traumaRegistry

====
